---- MODULE Spec2Model ----
(***************************************************************************)
(* Model of the crawl-and-download core of open-med-data:                  *)
(*   crawl_cms_hcpcs.py   (get_page, find_downloadable_links,              *)
(*                         download_file, crawl_page)                      *)
(*   download_loinc.py    (login, get_page, find_downloadable_links,       *)
(*                         download_file, accept_terms_and_download, main) *)
(*   download_all_loinc.py (login_and_get_session, download_file,          *)
(*                         accept_terms_and_download, main)                *)
(*   download_nlm_genes.py (make_request)                                  *)
(***************************************************************************)
EXTENDS Integers, Sequences, FiniteSets, TLC

(***************************************************************************)
(* Bounds of the model.                                                    *)
(***************************************************************************)
\* max_depth handed to crawl_page (the program's own call uses 3)
MaxDepth == 2
\* most anchors a served HTML page carries
MaxAnchors == 2
\* top-level crawl_page calls made in one process
MaxCalls == 2
\* largest value of the retries parameter tried
MaxRetries == 4

(***************************************************************************)
(* The URL universe.  A URL is known by what the code reads off it:        *)
(* whether its lower-cased path ends in one of DOWNLOAD_EXTENSIONS,        *)
(* whether the path holds one of the crawl keywords, and whether the       *)
(* netloc contains "cms.gov".                                              *)
(***************************************************************************)
PageSeq == <<"p0", "p1", "p2", "p3">>
PageURLs == {PageSeq[k] : k \in 1..Len(PageSeq)}
ExtURLs == {"f1.pdf"}
URLS == PageURLs \cup ExtURLs
\* START_URL
START_URL == "p0"

\* URLs met only on a page that is given, not drawn: a file, a page whose path
\* holds no crawl keyword, a file named in a script block only, and two pages with
\* a keyword in their path on other hosts, one of them with cms.gov in its name
REPORT_PDF == "https://www.cms.gov/docs/report.pdf"
MORE_PAGE == "https://www.cms.gov/docs/more/"
SCRIPT_ZIP == "https://www.cms.gov/files/data.zip"
LOOKALIKE_PAGE == "https://www.cms.gov.example.net/hcpcs/"
FOREIGN_PAGE == "https://www.example.org/hcpcs/"
GivenURLs == {REPORT_PDF, MORE_PAGE, SCRIPT_ZIP, LOOKALIKE_PAGE, FOREIGN_PAGE}
AllURLs == URLS \cup GivenURLs

\* an href no base URL resolves: urljoin raises ValueError on it
BAD_HREF == "http://["
\* urljoin(base_url, href) raises
Unresolvable(href) == href = BAD_HREF

\* any(path.endswith(ext) for ext in DOWNLOAD_EXTENSIONS)
HasExt(u) == u \in ExtURLs \cup {REPORT_PDF, SCRIPT_ZIP}
\* a test every path passes
HasKeyword_any(u) == TRUE
\* any(keyword in path for keyword in ['hcpcs', 'alpha-numeric', 'coding'])
HasKeyword(u) == u \in PageURLs \cup {LOOKALIKE_PAGE, FOREIGN_PAGE}
\* 'cms.gov' in parsed_link.netloc
IsCms(u) == u \in AllURLs \ {FOREIGN_PAGE}

\* anchors: the resolved hrefs of the page's anchors; scripts: the absolute URLs
\* ending in an extension that stand in the page's text outside any href
NoResponse == [ctype |-> "none", anchors |-> {}, scripts |-> {}]
BinaryBody == [ctype |-> "application/octet-stream", anchors |-> {}, scripts |-> {}]
AnchorSets == {A \in SUBSET URLS : Cardinality(A) <= MaxAnchors}
\* what the remote site serves for a URL: an HTML page with anchors, or a binary body
\* the HTML pages with an anchor whose href cannot be resolved, alone or beside
\* other anchors
BadHrefPages ==
    {[ctype |-> "text/html", anchors |-> A \cup {BAD_HREF}, scripts |-> {}] :
       A \in {B \in SUBSET URLS : Cardinality(B) < MaxAnchors}}
Responses == {[ctype |-> "text/html", anchors |-> A, scripts |-> {}] : A \in AnchorSets}
             \cup {BinaryBody} \cup BadHrefPages

VARIABLES
    VISITED_URLS,      \* crawl_cms_hcpcs.VISITED_URLS / download_loinc.VISITED_URLS
    DOWNLOADED_FILES,  \* DOWNLOADED_FILES of the running program
    stack,             \* the crawl_page frames, innermost last
    site,              \* what the remote site serves, fixed once first served
    calls,             \* top-level crawl_page calls made so far
    pageGets,          \* get_page calls made, per URL
    pageDepth,         \* depths of the frames that called get_page, per URL
    fileGets,          \* GET requests issued by download_file, per URL
    fileWrites,        \* files opened for writing by download_file, per URL
    allOk,             \* no fetch and no download has failed in this process
    prog,              \* the program whose functions are running
    last,              \* the last direct call of a function and what it returned
    retry              \* the call under way when one function is run on its own:
                       \* get_page / make_request, main's login, the terms flow

vars == <<VISITED_URLS, DOWNLOADED_FILES, stack, site, calls, pageGets, pageDepth,
          fileGets, fileWrites, allOk, prog, last, retry>>


(***************************************************************************)
(* get_page / make_request: the retry loop.                                *)
(*   impl      "cms"   crawl_cms_hcpcs.get_page                            *)
(*             "loinc" download_loinc.get_page                             *)
(*             "nlm"   download_nlm_genes.make_request                     *)
(*   outcomes  what the k-th request of the call does:                     *)
(*             "ok"            a 2xx response                              *)
(*             "request_error" a requests.exceptions.RequestException      *)
(*                             (timeout, connection error, non-2xx status) *)
(*             "other_error"   any other exception                         *)
(*             "hang"          no answer, ever: excluded by timeout=       *)
(***************************************************************************)
Impls == {"cms", "loinc", "nlm"}
AttemptOutcomes == {"ok", "request_error", "other_error"}
\* the default of the retries parameter, used by every caller
DefaultRetries == 3

\* the same request made without timeout=: it may never return
FetchOutcomes_hang == {"ok", "request_error", "hang"}
\* what one requests.get(url, headers=headers, timeout=30) of the crawl can do
FetchOutcomes == {"ok", "request_error"}

\* the except clause: Exception in cms and nlm, RequestException in loinc
Caught(impl, o) ==
    IF impl = "loinc" THEN o = "request_error" ELSE o \in {"request_error", "other_error"}

\* a delay growing by a fixed step instead
RetryDelay_step(impl, attempt) == attempt + 1
\* the time.sleep argument after failed attempt number `attempt` (counted from 0)
RetryDelay(impl, attempt) ==
    IF impl = "loinc" THEN 2 ^ attempt ELSE 2

\* giving up one attempt early
MayRetry_short(attempt, retries) == attempt < retries - 2
\* if attempt < retries - 1: sleep and go round again, else give up
MayRetry(attempt, retries) == attempt < retries - 1

\* body of the for loop from `attempt` on; requests and delays are those made so far
RECURSIVE RetryLoop(_, _, _, _, _)
RetryLoop(impl, retries, outcomes, attempt, delays) ==
    IF attempt >= retries
    THEN [ret |-> "None", requests |-> attempt, delays |-> delays]
    ELSE LET o == outcomes[attempt + 1] IN
         IF o = "ok"
         THEN [ret |-> "response", requests |-> attempt + 1, delays |-> delays]
         ELSE IF o = "hang"
         THEN [ret |-> "hang", requests |-> attempt + 1, delays |-> delays]
         ELSE IF ~Caught(impl, o)
         THEN [ret |-> "raise", requests |-> attempt + 1, delays |-> delays]
         ELSE IF MayRetry(attempt, retries)
         THEN RetryLoop(impl, retries, outcomes, attempt + 1,
                        Append(delays, RetryDelay(impl, attempt)))
         ELSE [ret |-> "None", requests |-> attempt + 1, delays |-> delays]

get_page(impl, retries, outcomes) == RetryLoop(impl, retries, outcomes, 0, <<>>)

(***************************************************************************)
(* find_downloadable_links (crawl_cms_hcpcs).                              *)
(***************************************************************************)
\* the text the pattern's only group captures for a URL ending in an extension
ExtGroup(u) == IF u = SCRIPT_ZIP THEN "zip" ELSE "pdf"
\* re.findall with one group returns the group's text for every match; text is the
\* URLs standing in str(soup)
RegexMatches(text) == {ExtGroup(u) : u \in {a \in text : HasExt(a)}}
\* url.startswith('http')
StartsWithHttp(s) == s \in AllURLs

\* full_url = urljoin(base_url, href) raises for one of the anchors: the exception
\* leaves find_downloadable_links
ExtractorRaises(anchors) == \E a \in anchors : Unresolvable(a)

\* the list returned, when urljoin raises for no anchor
find_downloadable_links(anchors, scripts, visited) ==
    {u \in anchors : HasExt(u)}
    \cup {u \in anchors : HasKeyword(u) /\ u \notin visited}
    \cup {m \in RegexMatches(anchors \cup scripts) : StartsWithHttp(m)}

\* list(set(links)): the links in some order, the same for both loops of crawl_page
Orders(S) ==
    {s \in [1..Cardinality(S) -> S] : \A i, j \in 1..Cardinality(S) : s[i] = s[j] => i = j}

(***************************************************************************)
(* download_file.                                                          *)
(*   p        "cms" crawl_cms_hcpcs, "loinc" download_loinc,               *)
(*            "all_loinc" download_all_loinc                               *)
(*   filepath the file the call writes; files are named by URLs: the file  *)
(*            of a URL is named by that URL, a file two URLs share by one  *)
(*            of them                                                      *)
(*   outcome  "ok"           2xx, body written                             *)
(*            "small_html"   2xx, text/html body below the size threshold  *)
(*            "net_error"    the GET or raise_for_status raises            *)
(*            "fs_error"     makedirs or open raises                       *)
(*            "stream_error" the file is opened, then a chunk fails        *)
(***************************************************************************)
Progs == {"cms", "loinc", "all_loinc"}
DlOutcomes == {"ok", "small_html", "net_error", "fs_error", "stream_error"}

\* no test at all
AlreadyHave_never(p, url, filepath, downloaded, writes) == FALSE
\* the test made before any request
AlreadyHave(p, url, filepath, downloaded, writes) ==
    IF p = "all_loinc" THEN writes[filepath] > 0 ELSE url \in downloaded

\* len(response.content) below which a text/html answer is skipped; crawl_cms_hcpcs
\* makes no such test
HTML_THRESHOLD(p) == IF p = "loinc" THEN 10000 ELSE IF p = "all_loinc" THEN 50000 ELSE 0
\* 'text/html' in content_type
IsHtmlType(ctype) == ctype \in {"text/html", "text/html; charset=utf-8"}
\* what a 2xx answer of this content type and size is to download_file
ResponseOutcome(p, ctype, size) ==
    IF IsHtmlType(ctype) /\ size < HTML_THRESHOLD(p) THEN "small_html" ELSE "ok"

\* no test of the answer
SkipsHtml_never(p, outcome) == FALSE
\* the content-type and size test, absent from crawl_cms_hcpcs
SkipsHtml(p, outcome) == p \in {"loinc", "all_loinc"} /\ outcome = "small_html"

\* an except clause that names the network errors only
DownloadCaught_network(p, outcome) == outcome = "net_error"
\* except Exception around the whole body: every failure in it is caught
DownloadCaught(p, outcome) == TRUE

\* raised: the failure left download_file as an exception (ret is then no value)
download_file(p, url, filepath, outcome, downloaded, gets, writes) ==
    IF AlreadyHave(p, url, filepath, downloaded, writes)
    THEN [ret |-> FALSE, raised |-> FALSE, requests |-> 0, downloaded |-> downloaded,
          gets |-> gets, writes |-> writes]
    ELSE LET g == [gets EXCEPT ![url] = @ + 1]
             w == [writes EXCEPT ![filepath] = @ + 1]
         IN  IF SkipsHtml(p, outcome)
             THEN [ret |-> FALSE, raised |-> FALSE, requests |-> 1,
                   downloaded |-> downloaded, gets |-> g, writes |-> writes]
             ELSE IF outcome \in {"net_error", "fs_error"}
             THEN [ret |-> FALSE, raised |-> ~DownloadCaught(p, outcome), requests |-> 1,
                   downloaded |-> downloaded, gets |-> g, writes |-> writes]
             ELSE IF outcome = "stream_error"
             THEN [ret |-> FALSE, raised |-> ~DownloadCaught(p, outcome), requests |-> 1,
                   downloaded |-> downloaded, gets |-> g, writes |-> w]
             ELSE [ret |-> TRUE, raised |-> FALSE, requests |-> 1,
                   downloaded |-> IF p = "all_loinc" THEN downloaded
                                  ELSE downloaded \cup {url},
                   gets |-> g, writes |-> w]


(***************************************************************************)
(* crawl_page (crawl_cms_hcpcs).  A frame is one activation:               *)
(*   url, depth  the arguments (max_depth is MaxDepth in every call)       *)
(*   pc          "enter" at the call, "files" in the first loop over       *)
(*               links, "pages" in the second                              *)
(*   links, i    the list returned by find_downloadable_links and the      *)
(*               position of the loop in it                                *)
(*   handed      the links this frame has passed to download_file          *)
(***************************************************************************)
Frame(url, depth) ==
    [url |-> url, depth |-> depth, pc |-> "enter", links |-> <<>>, i |-> 1, handed |-> {}]

Top == stack[Len(stack)]
Rest == SubSeq(stack, 1, Len(stack) - 1)
\* an exception no frame catches leaves every frame and ends main: the frames stay
\* as the exception left them, the one it came from marked
Unwound == [stack EXCEPT ![Len(stack)] = [@ EXCEPT !.pc = "raised"]]

\* an off-by-one depth test
DepthExceeded_late(depth, max_depth) == depth > max_depth + 1
\* if depth > max_depth: return
DepthExceeded(depth, max_depth) == depth > max_depth
\* no membership test
AlreadyVisited_off(url, visited) == FALSE
\* if url in VISITED_URLS: return
AlreadyVisited(url, visited) == url \in visited
\* a file test that reads the extension only
IsDirectFile_ext(url, ctype) == HasExt(url)
\* the file test on the fetched URL itself: extension, or 'application/' or 'pdf' in
\* the content type
IsDirectFile(url, ctype) == HasExt(url) \/ ctype = "application/octet-stream"
\* a first loop that takes no link for a file
IsFileLink_none(link) == FALSE
\* the file test of the first loop
IsFileLink(link) == HasExt(link)
\* the test of the second loop: not visited, and a CMS host
ShouldRecurse(link, visited) == link \notin visited /\ IsCms(link)
\* for link in links: the next position of the first and of the second loop
FilesNext(i) == i + 1
PagesNext(i) == i + 1

\* Run the frames on until the next download, the next recursive call or the end
\* of the outermost call: an iteration of the first loop on a link that is no file
\* and an iteration of the second loop on a link that is not recursed into change
\* nothing but the position; a loop that has run off the end of links is left, and
\* a frame with nothing left to do returns.
RECURSIVE Settle(_, _)
Settle(s, visited) ==
    IF s = <<>> THEN s
    ELSE LET f == s[Len(s)] IN
         IF f.pc = "files" /\ f.i > Len(f.links)
         THEN Settle([s EXCEPT ![Len(s)] = [f EXCEPT !.pc = "pages", !.i = 1]], visited)
         ELSE IF f.pc = "files" /\ ~IsFileLink(f.links[f.i])
         THEN Settle([s EXCEPT ![Len(s)] = [f EXCEPT !.i = FilesNext(@)]], visited)
         ELSE IF f.pc = "pages" /\ f.i > Len(f.links)
         THEN Settle(SubSeq(s, 1, Len(s) - 1), visited)
         ELSE IF f.pc = "pages" /\ ~ShouldRecurse(f.links[f.i], visited)
         THEN Settle([s EXCEPT ![Len(s)] = [f EXCEPT !.i = PagesNext(@)]], visited)
         ELSE s

\* The pages some served page or the seed has named so far.  Page names carry no
\* meaning beyond identity, so a page that names pages not named before names the
\* next ones of PageSeq: the named pages are always PageSeq[1..n].
Named == {START_URL} \cup UNION {site[u].anchors \cap PageURLs : u \in URLS}
InOrder(A) ==
    \A k \in 2..Len(PageSeq) :
        PageSeq[k] \in A => PageSeq[k - 1] \in A \cup Named

\* what the site serves for url: a URL ending in an extension serves a binary body
Served(url) ==
    IF site[url] # NoResponse THEN {site[url]}
    ELSE IF HasExt(url) THEN {BinaryBody}
    ELSE {r \in Responses : InOrder(r.anchors)}

NoCall == [fn |-> "none", url |-> "none", outcome |-> "none", pre |-> FALSE,
           ret |-> FALSE, raised |-> FALSE, requests |-> 0, ctype |-> "none", size |-> 0]
NoRetry == [impl |-> "none", retries |-> 0, outcomes |-> <<>>, done |-> FALSE,
            ret |-> "none", requests |-> 0, delays |-> <<>>]

\* main: crawl_page(START_URL, depth=0, max_depth); a further call in the same
\* process is one on a URL already in VISITED_URLS
CallCrawlPage(seed) ==
    /\ prog = "cms"
    /\ stack = <<>>
    /\ calls < MaxCalls
    /\ IF calls = 0 THEN seed \in {START_URL} \cup ExtURLs ELSE seed \in VISITED_URLS
    /\ stack' = <<Frame(seed, 0)>>
    /\ calls' = calls + 1
    /\ last' = IF calls = 0 THEN [NoCall EXCEPT !.fn = "crawl_page", !.url = seed]
                ELSE last
    /\ UNCHANGED <<VISITED_URLS, DOWNLOADED_FILES, site, pageGets, pageDepth,
                   fileGets, fileWrites, allOk, prog, retry>>

\* crawl_page from its first line to the first loop, or to its return
CrawlEnter ==
    /\ prog = "cms"
    /\ stack # <<>>
    /\ Top.pc = "enter"
    /\ UNCHANGED <<calls, prog, last, retry>>
    /\ IF DepthExceeded(Top.depth, MaxDepth) \/ AlreadyVisited(Top.url, VISITED_URLS)
       THEN /\ stack' = Settle(Rest, VISITED_URLS)
            /\ UNCHANGED <<VISITED_URLS, DOWNLOADED_FILES, site, pageGets, pageDepth,
                           fileGets, fileWrites, allOk>>
       ELSE /\ VISITED_URLS' = VISITED_URLS \cup {Top.url}
            /\ pageGets' = [pageGets EXCEPT ![Top.url] = @ + 1]
            /\ pageDepth' = [pageDepth EXCEPT ![Top.url] = @ \cup {Top.depth}]
            /\ \E outcomes \in [1..DefaultRetries -> FetchOutcomes] :
                 LET r == get_page("cms", DefaultRetries, outcomes) IN
                 IF r.ret = "hang"
                 THEN \* the request never returns
                      /\ stack' = [stack EXCEPT ![Len(stack)] = [@ EXCEPT !.pc = "blocked"]]
                      /\ UNCHANGED <<DOWNLOADED_FILES, site, fileGets, fileWrites, allOk>>
                 ELSE IF r.ret = "raise"
                 THEN /\ stack' = Unwound
                      /\ allOk' = FALSE
                      /\ UNCHANGED <<DOWNLOADED_FILES, site, fileGets, fileWrites>>
                 ELSE IF r.ret # "response"
                 THEN \* if not response: return
                      /\ stack' = Settle(Rest, VISITED_URLS')
                      /\ allOk' = FALSE
                      /\ UNCHANGED <<DOWNLOADED_FILES, site, fileGets, fileWrites>>
                 ELSE \E resp \in Served(Top.url) :
                      /\ site' = [site EXCEPT ![Top.url] = resp]
                      /\ IF IsDirectFile(Top.url, resp.ctype)
                         THEN \* download_file(url, filepath); return
                              \E o \in DlOutcomes :
                                LET d == download_file("cms", Top.url, Top.url, o, DOWNLOADED_FILES,
                                                       fileGets, fileWrites) IN
                                /\ DOWNLOADED_FILES' = d.downloaded
                                /\ fileGets' = d.gets
                                /\ fileWrites' = d.writes
                                /\ allOk' = (allOk /\ (d.ret \/ d.requests = 0))
                                /\ stack' = IF d.raised THEN Unwound
                                             ELSE Settle(Rest, VISITED_URLS')
                         ELSE IF ExtractorRaises(resp.anchors)
                         THEN \* find_downloadable_links raises and nothing catches it
                              /\ stack' = Unwound
                              /\ allOk' = FALSE
                              /\ UNCHANGED <<DOWNLOADED_FILES, fileGets, fileWrites>>
                         ELSE \* links = find_downloadable_links(soup, url)
                              \E links \in Orders(find_downloadable_links(
                                               resp.anchors, resp.scripts, VISITED_URLS')) :
                                /\ stack' = Settle([stack EXCEPT ![Len(stack)] =
                                       [@ EXCEPT !.pc = "files", !.links = links, !.i = 1]],
                                       VISITED_URLS')
                                /\ UNCHANGED <<DOWNLOADED_FILES, fileGets, fileWrites, allOk>>

\* the next download of the first loop: download_file(link, filepath)
CrawlFileLink ==
    /\ prog = "cms"
    /\ stack # <<>>
    /\ Top.pc = "files"
    /\ Top.i <= Len(Top.links)
    /\ IsFileLink(Top.links[Top.i])
    /\ UNCHANGED <<VISITED_URLS, site, calls, pageGets, pageDepth, prog, last, retry>>
    /\ LET link == Top.links[Top.i] IN
       \E o \in DlOutcomes :
         LET d == download_file("cms", link, link, o, DOWNLOADED_FILES, fileGets,
                                fileWrites) IN
         /\ DOWNLOADED_FILES' = d.downloaded
         /\ fileGets' = d.gets
         /\ fileWrites' = d.writes
         /\ allOk' = (allOk /\ (d.ret \/ d.requests = 0))
         /\ stack' = IF d.raised THEN Unwound
                      ELSE Settle([stack EXCEPT ![Len(stack)] =
                             [@ EXCEPT !.i = FilesNext(@), !.handed = @ \cup {link}]],
                             VISITED_URLS)

\* the next recursive call of the second loop: crawl_page(link, depth + 1, max_depth)
CrawlPageLink ==
    /\ prog = "cms"
    /\ stack # <<>>
    /\ Top.pc = "pages"
    /\ Top.i <= Len(Top.links)
    /\ ShouldRecurse(Top.links[Top.i], VISITED_URLS)
    /\ stack' = Append([stack EXCEPT ![Len(stack)] = [@ EXCEPT !.i = PagesNext(@)]],
                       Frame(Top.links[Top.i], Top.depth + 1))
    /\ UNCHANGED <<VISITED_URLS, DOWNLOADED_FILES, site, calls, pageGets, pageDepth,
                   fileGets, fileWrites, allOk, prog, last, retry>>

InitCommon ==
    /\ VISITED_URLS = {}
    /\ DOWNLOADED_FILES = {}
    /\ stack = <<>>
    /\ site = [u \in AllURLs |-> NoResponse]
    /\ calls = 0
    /\ pageGets = [u \in AllURLs |-> 0]
    /\ pageDepth = [u \in AllURLs |-> {}]
    /\ fileGets = [u \in AllURLs |-> 0]
    /\ fileWrites = [u \in AllURLs |-> 0]
    /\ allOk = TRUE
    /\ last = NoCall

\* the crawl of crawl_cms_hcpcs
Init ==
    /\ InitCommon
    /\ prog = "cms"
    /\ retry = NoRetry

Next ==
    \/ \E seed \in URLS : CallCrawlPage(seed)
    \/ CrawlEnter
    \/ CrawlFileLink
    \/ CrawlPageLink

Spec == Init /\ [][Next]_vars

CrawlStep == CrawlEnter \/ CrawlFileLink \/ CrawlPageLink

\* the program runs on: a step it can take, it takes
FairSpec == Init /\ [][Next]_vars /\ WF_vars(CrawlStep)

(***************************************************************************)
(* The same crawl from a seed page that is given: any set of anchors to a  *)
(* file, to a page without keyword in its path, to a page with one and to  *)
(* pages on other hosts, and any set of file URLs named in its script      *)
(* blocks only.  Every other page is an HTML page without links.           *)
(***************************************************************************)
GivenAnchors == {REPORT_PDF, MORE_PAGE, PageSeq[2], LOOKALIKE_PAGE, FOREIGN_PAGE}
GivenScripts == {SCRIPT_ZIP}
GivenPages == {[ctype |-> "text/html", anchors |-> A, scripts |-> S] :
                 A \in SUBSET GivenAnchors, S \in SUBSET GivenScripts}
EmptyPage == [ctype |-> "text/html", anchors |-> {}, scripts |-> {}]

InitGiven ==
    /\ VISITED_URLS = {}
    /\ DOWNLOADED_FILES = {}
    /\ stack = <<>>
    /\ \E seed \in GivenPages :
         site = [u \in AllURLs |-> IF u = START_URL THEN seed
                                   ELSE IF HasExt(u) THEN BinaryBody ELSE EmptyPage]
    /\ calls = 0
    /\ pageGets = [u \in AllURLs |-> 0]
    /\ pageDepth = [u \in AllURLs |-> {}]
    /\ fileGets = [u \in AllURLs |-> 0]
    /\ fileWrites = [u \in AllURLs |-> 0]
    /\ allOk = TRUE
    /\ last = NoCall
    /\ prog = "cms"
    /\ retry = NoRetry

SpecGiven == InitGiven /\ [][Next]_vars

(***************************************************************************)
(* get_page / make_request called on its own, for every implementation,    *)
(* every value of retries up to MaxRetries and every run of outcomes.      *)
(***************************************************************************)
InitRetry ==
    /\ InitCommon
    /\ prog = "none"
    /\ retry \in {[NoRetry EXCEPT !.impl = m, !.retries = n, !.outcomes = o] :
                    m \in Impls, n \in 0..MaxRetries,
                    o \in [1..MaxRetries -> AttemptOutcomes]}

RetryCall ==
    /\ retry.impl \in Impls
    /\ ~retry.done
    /\ LET r == get_page(retry.impl, retry.retries, retry.outcomes) IN
       retry' = [retry EXCEPT !.done = TRUE, !.ret = r.ret, !.requests = r.requests,
                              !.delays = r.delays]
    /\ UNCHANGED <<VISITED_URLS, DOWNLOADED_FILES, stack, site, calls, pageGets,
                   pageDepth, fileGets, fileWrites, allOk, prog, last>>

NextRetry == RetryCall

SpecRetry == InitRetry /\ [][NextRetry]_vars

(***************************************************************************)
(* download_file called on its own, in each of the three programs.         *)
(***************************************************************************)
\* download_file calls made in one process
MaxDlCalls == 3

InitDl ==
    /\ InitCommon
    /\ prog \in Progs
    /\ retry = NoRetry

CallDownloadFile(url, o) ==
    /\ prog \in Progs
    /\ calls < MaxDlCalls
    /\ LET d == download_file(prog, url, url, o, DOWNLOADED_FILES, fileGets, fileWrites) IN
       /\ DOWNLOADED_FILES' = d.downloaded
       /\ fileGets' = d.gets
       /\ fileWrites' = d.writes
       /\ last' = [fn |-> "download_file", url |-> url, outcome |-> o,
                   pre |-> AlreadyHave(prog, url, url, DOWNLOADED_FILES, fileWrites),
                   ret |-> d.ret, raised |-> d.raised, requests |-> d.requests,
                   ctype |-> "none", size |-> 0]
    /\ calls' = calls + 1
    /\ UNCHANGED <<VISITED_URLS, stack, site, pageGets, pageDepth, allOk, prog, retry>>

\* the content types and body sizes of the 2xx answers tried
AnswerTypes == {"text/html; charset=utf-8", "application/zip"}
AnswerSizes == {9999, 10000, 49999, 50000}

\* download_file on a URL that answers 2xx with this content type and body size
CallDownloadAnswer(url, ctype, size) ==
    /\ prog \in Progs
    /\ calls < MaxDlCalls
    /\ LET o == ResponseOutcome(prog, ctype, size)
           d == download_file(prog, url, url, o, DOWNLOADED_FILES, fileGets, fileWrites) IN
       /\ DOWNLOADED_FILES' = d.downloaded
       /\ fileGets' = d.gets
       /\ fileWrites' = d.writes
       /\ last' = [fn |-> "download_answer", url |-> url, outcome |-> o,
                   pre |-> AlreadyHave(prog, url, url, DOWNLOADED_FILES, fileWrites),
                   ret |-> d.ret, raised |-> d.raised, requests |-> d.requests,
                   ctype |-> ctype, size |-> size]
    /\ calls' = calls + 1
    /\ UNCHANGED <<VISITED_URLS, stack, site, pageGets, pageDepth, allOk, prog, retry>>

NextDl ==
    \/ \E url \in URLS, o \in DlOutcomes : CallDownloadFile(url, o)
    \/ \E url \in URLS, ctype \in AnswerTypes, size \in AnswerSizes :
          CallDownloadAnswer(url, ctype, size)

SpecDl == InitDl /\ [][NextDl]_vars

(***************************************************************************)
(* login (download_loinc) and login_and_get_session (download_all_loinc),  *)
(* and what main does with the result.                                     *)
(*   get      what the GET of the login page does: "ok", "http_error" (a   *)
(*            non-2xx answer) or "net_error" (timeout, connection error)   *)
(*   form     the form the answer's HTML holds, if any: its action         *)
(*            attribute and its hidden inputs in document order            *)
(*   post     what the POST does: "ok" (an answer, whatever its status)    *)
(*            or "net_error"                                               *)
(*   url      the final URL of the POST's answer, redirects followed       *)
(*   mentions USERNAME.lower() in response.text.lower()                    *)
(***************************************************************************)
LOGIN_URL == "https://loinc.org/wp-login.php"
DOWNLOAD_PAGE_URL == "https://loinc.org/file-access/download-id/470626/"
DOWNLOADS_URL == "https://loinc.org/downloads/"
USERNAME == "cze"
PASSWORD == "czeasd33"

\* most hidden inputs a login form carries
MaxHidden == 2

\* tag.get(attr) on a tag without the attribute
Absent == "<absent>"
HiddenNames == {Absent, "log", "_wpnonce"}
HiddenValues == {Absent, "tok1", "tok2"}
HiddenInputs == [name : HiddenNames, value : HiddenValues]
FormActions == {Absent, "https://loinc.org/sso/authenticate"}
NoForm == [found |-> FALSE, action |-> Absent, hidden |-> <<>>]
LoginForms ==
    {NoForm} \cup
    {[found |-> TRUE, action |-> a, hidden |-> h] :
        a \in FormActions,
        h \in UNION {[1..n -> HiddenInputs] : n \in 0..MaxHidden}}
LoginGetOutcomes == {"ok", "http_error", "net_error"}
LoginPostOutcomes == {"ok", "net_error"}
LoginResponseURLs == {LOGIN_URL, "https://loinc.org/", "https://loinc.org/wp-admin/",
                      DOWNLOAD_PAGE_URL, DOWNLOADS_URL}
LoginInputs == [get : LoginGetOutcomes, form : LoginForms, post : LoginPostOutcomes,
                url : LoginResponseURLs, mentions : BOOLEAN]

\* fragment in url, for the fragments the code looks for
UrlContains(url, fragment) ==
    <<url, fragment>> \in {<<"https://loinc.org/wp-admin/", "wp-admin">>,
                           <<DOWNLOAD_PAGE_URL, "file-access">>,
                           <<DOWNLOADS_URL, "downloads">>}

\* login_data before the hidden inputs are copied in
LoginDefaults(p) ==
    ("log" :> USERNAME) @@ ("pwd" :> PASSWORD) @@ ("wp-submit" :> "Log In")
    @@ ("redirect_to" :> IF p = "loinc" THEN DOWNLOAD_PAGE_URL ELSE DOWNLOADS_URL)
    @@ ("testcookie" :> "1")

\* hidden.get('value', '')
HiddenValue(v) == IF v = Absent THEN "" ELSE v
\* an assignment that leaves a key already present alone
SetField_keep(data, name, value) == data @@ (name :> value)
\* login_data[name] = value
SetField(data, name, value) == (name :> value) @@ data

\* for hidden in form.find_all('input', type='hidden'), from the k-th on
RECURSIVE AddHidden(_, _, _)
AddHidden(data, hidden, k) ==
    IF k > Len(hidden) THEN data
    ELSE AddHidden(IF hidden[k].name # Absent
                   THEN SetField(data, hidden[k].name, HiddenValue(hidden[k].value))
                   ELSE data,
                   hidden, k + 1)

\* the URL the login data is POSTed to
LoginPostUrl(p, form) == LOGIN_URL

\* the test on the POST's answer
LoginSucceeded(p, url, mentions) ==
    IF p = "loinc"
    THEN UrlContains(url, "wp-admin") \/ UrlContains(url, "file-access") \/ mentions
    ELSE mentions \/ UrlContains(url, "downloads")

\* what the login page's GET stops: in download_loinc raise_for_status and the
\* except clause turn every failure into False; download_all_loinc has neither
LoginResult(ret, reported, requests) ==
    [ret |-> ret, reported |-> reported, posted |-> FALSE, postUrl |-> Absent,
     payload |-> <<>>, requests |-> requests]

\* ret: "True"/"False" in download_loinc; "session", "None" or "raise" (the
\* exception leaves the function) in download_all_loinc
login(p, in) ==
    IF in.get = "net_error" \/ (p = "loinc" /\ in.get = "http_error")
    THEN LoginResult(IF p = "loinc" THEN "False" ELSE "raise", "failure", 1)
    ELSE IF ~in.form.found
    THEN LoginResult(IF p = "loinc" THEN "False" ELSE "None", "failure", 1)
    ELSE LET data == AddHidden(LoginDefaults(p), in.form.hidden, 1)
             sent == [posted |-> TRUE, postUrl |-> LoginPostUrl(p, in.form),
                      payload |-> data, requests |-> 2]
         IN  IF in.post = "net_error"
             THEN sent @@ [ret |-> IF p = "loinc" THEN "False" ELSE "raise",
                           reported |-> "failure"]
             ELSE IF LoginSucceeded(p, in.url, in.mentions)
             THEN sent @@ [ret |-> IF p = "loinc" THEN "True" ELSE "session",
                           reported |-> "success"]
             ELSE sent @@ [ret |-> IF p = "loinc" THEN "False" ELSE "session",
                           reported |-> "failure"]

\* main, from the login call to the first request of the crawl/download phase:
\*   pc  "start", "returned" (login has returned), "crawl" (the phase has begun),
\*       "exit" (main has returned without it), "crashed" (an exception ended main)
LoginPrograms == {"loinc", "all_loinc"}

InitLogin ==
    /\ InitCommon
    /\ prog \in LoginPrograms
    /\ retry \in {[fn |-> "main", pc |-> "start", in |-> in,
                   out |-> LoginResult("none", "none", 0)] : in \in LoginInputs}

\* if not login(session) / session = login_and_get_session()
MainLogin ==
    /\ prog \in LoginPrograms
    /\ retry.pc = "start"
    /\ LET out == login(prog, retry.in) IN
       retry' = [retry EXCEPT !.out = out,
                              !.pc = IF out.ret = "raise" THEN "crashed" ELSE "returned"]
    /\ UNCHANGED <<VISITED_URLS, DOWNLOADED_FILES, stack, site, calls, pageGets,
                   pageDepth, fileGets, fileWrites, allOk, prog, last>>

\* download_loinc: a warning, then crawl_download_page(session, DOWNLOAD_PAGE_URL);
\* download_all_loinc: if not session: return, else the loop over DOWNLOAD_URLS
MainAfterLogin ==
    /\ prog \in LoginPrograms
    /\ retry.pc = "returned"
    /\ retry' = [retry EXCEPT !.pc = IF prog = "all_loinc" /\ retry.out.ret = "None"
                                     THEN "exit" ELSE "crawl"]
    /\ UNCHANGED <<VISITED_URLS, DOWNLOADED_FILES, stack, site, calls, pageGets,
                   pageDepth, fileGets, fileWrites, allOk, prog, last>>

NextLogin == MainLogin \/ MainAfterLogin

SpecLogin == InitLogin /\ [][NextLogin]_vars

(***************************************************************************)
(* accept_terms_and_download (download_loinc, download_all_loinc) and the  *)
(* loop of its caller over what it returns.                                *)
(*   gets         what the requests of the page's GET do, attempt by       *)
(*                attempt (download_all_loinc makes one attempt)           *)
(*   found        the page holds a form                                    *)
(*   action       that form's action attribute                             *)
(*   post         what the POST does                                       *)
(*   ctype, url   declared content type and final URL of the POST's answer *)
(*   anchors      the resolved hrefs of the answer's anchors, or the href  *)
(*                itself where it cannot be resolved                       *)
(*   formActions  the actions of the answer's forms, likewise              *)
(*   files        the anchors ending in an extension, in document order    *)
(* The data posted is built from the form's inputs without any request and *)
(* plays no part in what is returned.                                      *)
(***************************************************************************)
TERMS_ZIP == "https://loinc.org/files/Loinc_2.81.zip"
TERMS_ARCHIVE == "https://loinc.org/downloads/archive/"
TERMS_ABOUT == "https://loinc.org/about/"
TERMS_ACCEPT == "https://loinc.org/download/accept/"
COMPLETE_DOWNLOAD_URL == "https://loinc.org/download/loinc-complete/"
LOINC_DOWNLOAD_URL == "https://loinc.org/download/"
\* a second link to a file of the base name Loinc_2.81.zip
ARCHIVE_ZIP == "https://loinc.org/downloads/archive/Loinc_2.81.zip"
LoincURLs == {DOWNLOAD_PAGE_URL, COMPLETE_DOWNLOAD_URL, LOINC_DOWNLOAD_URL,
              DOWNLOADS_URL, TERMS_ZIP, ARCHIVE_ZIP}

TermsAnchors == {TERMS_ZIP, TERMS_ARCHIVE, TERMS_ABOUT}
TermsPostOutcomes == {"ok", "request_error", "other_error"}
\* any(path.endswith(ext) for ext in DOWNLOAD_EXTENSIONS), and the list of
\* download_all_loinc.accept_terms_and_download
LoincHasExt(u) == u \in {TERMS_ZIP, ARCHIVE_ZIP}
\* any(keyword in path.lower() for keyword in ['download', 'file', 'loinc', 'complete'])
LoincHasKeyword(u) ==
    u \in {TERMS_ZIP, ARCHIVE_ZIP, TERMS_ARCHIVE, TERMS_ACCEPT, DOWNLOAD_PAGE_URL,
           COMPLETE_DOWNLOAD_URL}
\* 'download' in full_action.lower()
MentionsDownload(u) ==
    u \in {ARCHIVE_ZIP, TERMS_ARCHIVE, TERMS_ACCEPT, DOWNLOAD_PAGE_URL,
           COMPLETE_DOWNLOAD_URL}

TermsInputs ==
    {in \in [gets : [1..DefaultRetries -> FetchOutcomes], found : BOOLEAN,
             action : {Absent, TERMS_ACCEPT, BAD_HREF}, post : TermsPostOutcomes,
             ctype : {"text/html", "application/zip"},
             url : {DOWNLOAD_PAGE_URL, COMPLETE_DOWNLOAD_URL},
             anchors : SUBSET (TermsAnchors \cup {BAD_HREF}),
             formActions : SUBSET {TERMS_ACCEPT, BAD_HREF},
             files : {<<>>, <<TERMS_ZIP>>}] :
       in.files \in Orders({a \in in.anchors : LoincHasExt(a)})}
\* 'application/' in content_type or 'zip' in content_type or 'octet-stream' in content_type
IsBinaryType(ctype) == ctype \in {"application/zip", "application/octet-stream"}

\* re.findall(url_pattern, page_text, re.IGNORECASE): one group, so the group's text
LoincRegexMatches(text) == {"zip" : u \in {a \in text : LoincHasExt(a)}}
\* match.startswith('http')
LoincStartsWithHttp(s) == s \in TermsAnchors \cup {TERMS_ACCEPT}

\* find_downloadable_links of download_loinc raises: urljoin(base_url, href) for
\* an anchor or urljoin(base_url, action) for a form raises ValueError
LoincExtractorRaises(anchors, formActions) ==
    \E a \in anchors \cup formActions : Unresolvable(a)
\* the loop over the anchors of download_all_loinc.accept_terms_and_download
\* raises: urljoin(response.url, href)
AllAnchorsRaise(anchors) == \E a \in anchors : Unresolvable(a)

\* find_downloadable_links of download_loinc, when it returns
find_downloadable_links_loinc(anchors, formActions, visited) ==
    {u \in anchors : LoincHasExt(u)}
    \cup {u \in anchors : LoincHasKeyword(u) /\ u \notin visited}
    \cup {m \in LoincRegexMatches(anchors) : LoincStartsWithHttp(m)}
    \cup {a \in formActions : MentionsDownload(a)}

\* except Exception around the POST
TermsPostCaught(p, o) == TRUE

\* urljoin raised ValueError
SUBMIT_ERROR == "ValueError"
\* submit_url = urljoin(page_url, form_action) if form_action else page_url; the
\* actions of the model are absolute URLs, which urljoin returns as they are
SubmitUrl(page_url, action) ==
    IF action = Absent THEN page_url
    ELSE IF Unresolvable(action) THEN SUBMIT_ERROR
    ELSE action
\* the try of download_all_loinc holds the whole body; that of download_loinc
\* begins after submit_url is computed
SubmitCaught(p) == p = "all_loinc"

\* list: download_links of download_all_loinc in the order of its appends;
\* download_loinc returns list(set(links)), whose order is none of the page's
TermsResult(ret, gets, posts, links, postUrl) ==
    [ret |-> ret, gets |-> gets, posts |-> posts, links |-> links, postUrl |-> postUrl,
     list |-> <<>>]

\* ret: "list" (links is what is returned) or "raise"
accept_terms_and_download(p, page_url, in, visited) ==
    LET r == IF p = "loinc" THEN get_page("loinc", DefaultRetries, in.gets)
             ELSE [ret |-> IF in.gets[1] = "ok" THEN "response" ELSE "None",
                   requests |-> 1]
    IN  IF r.ret = "raise" THEN TermsResult("raise", r.requests, 0, {}, Absent)
        ELSE IF r.ret # "response" THEN TermsResult("list", r.requests, 0, {}, Absent)
        ELSE IF ~in.found THEN TermsResult("list", r.requests, 0, {}, Absent)
        ELSE LET to == SubmitUrl(page_url, in.action) IN
             IF to = SUBMIT_ERROR
             THEN TermsResult(IF SubmitCaught(p) THEN "list" ELSE "raise",
                              r.requests, 0, {}, Absent)
             ELSE IF in.post # "ok"
             THEN TermsResult(IF TermsPostCaught(p, in.post) THEN "list" ELSE "raise",
                              r.requests, 1, {}, to)
             ELSE IF (IF p = "loinc"
                      THEN LoincExtractorRaises(in.anchors, in.formActions)
                      ELSE AllAnchorsRaise(in.anchors))
             THEN \* the parsing of the answer stands in the try of the POST
                  TermsResult(IF TermsPostCaught(p, "other_error") THEN "list"
                              ELSE "raise", r.requests, 1, {}, to)
             ELSE IF p = "loinc"
             THEN TermsResult("list", r.requests, 1,
                              find_downloadable_links_loinc(in.anchors, in.formActions,
                                                            visited), to)
             ELSE [TermsResult("list", r.requests, 1,
                               {u \in in.anchors : LoincHasExt(u)}
                               \cup (IF IsBinaryType(in.ctype) THEN {in.url} ELSE {}),
                               to)
                   EXCEPT !.list = in.files \o (IF IsBinaryType(in.ctype)
                                                THEN <<in.url>> ELSE <<>>)]

\* the links the caller passes to download_file: crawl_download_page those ending in
\* an extension, download_all_loinc.main those not in its set downloaded
TermsHanded(p, links, downloaded) ==
    IF p = "loinc" THEN {l \in links : LoincHasExt(l)} ELSE links \ downloaded

(***************************************************************************)
(* Two runs of one program, one after the other, on the same directory.    *)
(* A run is a process: VISITED_URLS and DOWNLOADED_FILES are module        *)
(* globals and start empty in each; the files on disk (fileWrites) stay.   *)
(*   run    the run under way, 1 or 2                                      *)
(*   first  the URLs whose download_file call returned True in run 1       *)
(***************************************************************************)
\* download_file calls made in one run
MaxRunCalls == 2

InitRuns ==
    /\ InitCommon
    /\ prog \in Progs
    /\ retry = [fn |-> "process", run |-> 1, first |-> {}]

\* a download_file call the crawl of the run makes
RunDownload(url, o) ==
    /\ prog \in Progs
    /\ calls < MaxRunCalls
    /\ LET d == download_file(prog, url, url, o, DOWNLOADED_FILES, fileGets, fileWrites) IN
       /\ DOWNLOADED_FILES' = d.downloaded
       /\ fileGets' = d.gets
       /\ fileWrites' = d.writes
       /\ retry' = IF retry.run = 1 /\ d.ret
                   THEN [retry EXCEPT !.first = @ \cup {url}] ELSE retry
    /\ calls' = calls + 1
    /\ UNCHANGED <<VISITED_URLS, stack, site, pageGets, pageDepth, allOk, prog, last>>

\* the first run ends and the program is started again: VISITED_URLS = set(),
\* DOWNLOADED_FILES = set() at import, nothing is read from DOWNLOAD_DIR
StartSecondRun ==
    /\ prog \in Progs
    /\ retry.run = 1
    /\ retry' = [retry EXCEPT !.run = 2]
    /\ VISITED_URLS' = {}
    /\ DOWNLOADED_FILES' = {}
    /\ calls' = 0
    /\ UNCHANGED <<stack, site, pageGets, pageDepth, fileGets, fileWrites, allOk, prog,
                   last>>

NextRuns ==
    \/ \E url \in URLS, o \in DlOutcomes : RunDownload(url, o)
    \/ StartSecondRun

SpecRuns == InitRuns /\ [][NextRuns]_vars

(***************************************************************************)
(* File names and file paths.  A text is the sequence of the code points   *)
(* of its characters; a path is the sequence of its segments, the texts    *)
(* between its slashes.                                                    *)
(***************************************************************************)
\* longest file name and most segments before the file name in a URL path
MaxNameLen == 2
MaxDirs == 3

SeqsUpTo(S, n) == UNION {[1..k -> S] : k \in 0..n}

\* a  Z  7  .  -  _  space  %  e-acute (U+00E9)  arabic-indic digit three (U+0663)
NameChars == {97, 90, 55, 46, 45, 95, 32, 37, 233, 1635}
NAME_DEFAULT == <<102, 105, 108, 101>>                        \* "file"
DOWNLOAD_DIR == <<99, 109, 115, 46, 103, 111, 118>>           \* "cms.gov"
PDF_NAME == <<120, 46, 112, 100, 102>>                        \* "x.pdf"
SPACED_PDF_NAME == <<120, 32, 121, 46, 112, 100, 102>>        \* "x y.pdf"
DotDot == <<46, 46>>                                          \* ".."
DirSegments == {<<97>>, DotDot, <<>>}                         \* "a", "..", ""

\* \w of a str pattern: letters, digits and the underscore of every script
IsWordChar(c) == c \in (48..57) \cup (65..90) \cup (97..122) \cup {95} \cup {233, 1635}

\* re.sub(r'[^\w\.-]', '_', filename)
Sanitize(name) ==
    [i \in DOMAIN name |-> IF IsWordChar(name[i]) \/ name[i] \in {46, 45}
                           THEN name[i] ELSE 95]

\* the query of the URL: none, or "file=<value>"
NoQuery == [file |-> FALSE, value |-> <<>>]
FileQuery(v) == [file |-> TRUE, value |-> v]

HasDot(name) == \E i \in DOMAIN name : name[i] = 46

\* get_filename_from_url(url, default) of program p, for a URL whose path ends
\* in `name` (os.path.basename) and whose query is `query`
get_filename_from_url(p, name, query, default) ==
    IF p = "cms"
    THEN LET filename == IF name = <<>> \/ ~HasDot(name)
                         THEN (IF query.file THEN query.value ELSE default)
                         ELSE name
         IN Sanitize(filename)
    ELSE LET filename == IF name = <<>>
                         THEN (IF query.file THEN query.value ELSE default)
                         ELSE name
             cleaned == Sanitize(filename)
         IN IF cleaned = <<>> THEN default ELSE cleaned

\* str.strip('/') of a path, in segments: the empty segments at both ends go
RECURSIVE StripLeft(_)
StripLeft(segs) ==
    IF segs # <<>> /\ Head(segs) = <<>> THEN StripLeft(Tail(segs)) ELSE segs
RECURSIVE StripRight(_)
StripRight(segs) ==
    IF segs # <<>> /\ segs[Len(segs)] = <<>>
    THEN StripRight(SubSeq(segs, 1, Len(segs) - 1)) ELSE segs
StripSlashes(segs) == StripRight(StripLeft(segs))

\* os.path.join(base, *parts) for parts without a slash.  A path that ends in a
\* separator has an empty last segment.  The separator is put before a part only
\* when the path does not end in one, so an empty part leaves the path ending in
\* a separator and adds nothing more
RECURSIVE OsPathJoin(_, _)
OsPathJoin(base, parts) ==
    IF parts = <<>> THEN base
    ELSE LET p == Head(parts)
             open == base # <<>> /\ base[Len(base)] = <<>>
             stem == IF open THEN SubSeq(base, 1, Len(base) - 1) ELSE base
         IN OsPathJoin(Append(stem, p), Tail(parts))

\* the first loop of crawl_page: the file path handed to download_file for a
\* link whose URL path has the segments `path`, the last one the file name
FilePath(path, query) ==
    LET filename == get_filename_from_url("cms", path[Len(path)], query, NAME_DEFAULT)
        url_path == StripSlashes(path)
        subdir   == IF url_path # <<>>
                    THEN OsPathJoin(<<DOWNLOAD_DIR>>,
                                    SubSeq(url_path, 1, Len(url_path) - 1))
                    ELSE <<DOWNLOAD_DIR>>
    IN OsPathJoin(subdir, <<filename>>)

NamePrograms == {"cms", "loinc"}
NameInputs == SeqsUpTo(NameChars, MaxNameLen)
QueryInputs == {NoQuery} \cup {FileQuery(v) : v \in SeqsUpTo(NameChars, 1)}
PathInputs ==
    {d \o <<n>> : d \in SeqsUpTo(DirSegments, MaxDirs), n \in {PDF_NAME, SPACED_PDF_NAME}}

LOINC_DOWNLOAD_DIR == <<108, 111, 105, 110, 99>>                 \* "loinc"

\* the file path of program p for a file link: crawl_page keeps the directories of
\* the URL path, crawl_download_page joins DOWNLOAD_DIR and the file name
FilePathOf(p, path, query) ==
    IF p = "cms" THEN FilePath(path, query)
    ELSE OsPathJoin(<<LOINC_DOWNLOAD_DIR>>,
                    <<get_filename_from_url("loinc", path[Len(path)], query,
                                            NAME_DEFAULT)>>)

\* the file paths of the links of PathInputs
NameFilePaths == {FilePathOf(p, path, NoQuery) : p \in NamePrograms, path \in PathInputs}

\* A link of the host is named by the segments of its URL path, a file by its
\* file path: DOWNLOADED_FILES holds links, fileGets counts the GETs of
\* download_file by link, fileWrites the times a file path was opened with 'wb'.
InitNames ==
    /\ VISITED_URLS = {}
    /\ DOWNLOADED_FILES = {}
    /\ stack = <<>>
    /\ site = [u \in AllURLs |-> NoResponse]
    /\ calls = 0
    /\ pageGets = [u \in AllURLs |-> 0]
    /\ pageDepth = [u \in AllURLs |-> {}]
    /\ fileGets = [u \in PathInputs |-> 0]
    /\ fileWrites = [f \in NameFilePaths |-> 0]
    /\ allOk = TRUE
    /\ last = NoCall
    /\ prog \in NamePrograms
    /\ retry = NoRetry

\* Each behaviour makes one call (calls goes from 0 to 1).
\* one call of get_filename_from_url
CallGetFilename(name, query) ==
    /\ prog \in NamePrograms
    /\ calls = 0
    /\ last' = [fn |-> "get_filename_from_url", name |-> name, query |-> query,
                filename |-> get_filename_from_url(prog, name, query, NAME_DEFAULT)]
    /\ calls' = 1
    /\ UNCHANGED <<VISITED_URLS, DOWNLOADED_FILES, stack, site, pageGets, pageDepth,
                   fileGets, fileWrites, allOk, prog, retry>>

\* one iteration of the first loop of crawl_page on a file link, the
\* download_file call included; outcome is what that download does
CrawlFileLinkPath(path, outcome) ==
    /\ prog = "cms"
    /\ calls = 0
    /\ LET filepath == FilePath(path, NoQuery)
           d == download_file("cms", path, filepath, outcome, DOWNLOADED_FILES,
                              fileGets, fileWrites)
       IN /\ last' = [fn |-> "download_file", path |-> path, filepath |-> filepath,
                      ret |-> d.ret]
          /\ DOWNLOADED_FILES' = d.downloaded
          /\ fileGets' = d.gets
          /\ fileWrites' = d.writes
    /\ calls' = 1
    /\ UNCHANGED <<VISITED_URLS, stack, site, pageGets, pageDepth, allOk, prog, retry>>

\* two iterations of the first loop on two distinct file links of one host, both
\* answering 200: the two download_file calls in order, and the paths they open
\* with 'wb'
CrawlTwoFileLinks(path1, path2) ==
    /\ prog \in NamePrograms
    /\ calls = 0
    /\ path1 # path2
    /\ LET filepath1 == FilePathOf(prog, path1, NoQuery)
           filepath2 == FilePathOf(prog, path2, NoQuery)
           d1 == download_file(prog, path1, filepath1, "ok", DOWNLOADED_FILES,
                               fileGets, fileWrites)
           d2 == download_file(prog, path2, filepath2, "ok", d1.downloaded, d1.gets,
                               d1.writes)
       IN /\ last' = [fn |-> "download_pair", path1 |-> path1, path2 |-> path2,
                      filepath1 |-> filepath1, filepath2 |-> filepath2,
                      ret1 |-> d1.ret, ret2 |-> d2.ret]
          /\ DOWNLOADED_FILES' = d2.downloaded
          /\ fileGets' = d2.gets
          /\ fileWrites' = d2.writes
    /\ calls' = 1
    /\ UNCHANGED <<VISITED_URLS, stack, site, pageGets, pageDepth, allOk, prog, retry>>

NextNames ==
    \/ \E name \in NameInputs, query \in QueryInputs : CallGetFilename(name, query)
    \/ \E path \in PathInputs, outcome \in DlOutcomes : CrawlFileLinkPath(path, outcome)
    \/ \E path1 \in PathInputs, path2 \in PathInputs : CrawlTwoFileLinks(path1, path2)

SpecNames == InitNames /\ [][NextNames]_vars

(***************************************************************************)
(* The same crawl twice on one site.  The site is fixed by what it has     *)
(* served (site); the order in which a page's links are iterated is chosen *)
(* anew at every find_downloadable_links call (list(set(links))).  The     *)
(* first crawl's result is kept for comparison:                            *)
(*   run         the crawl under way, 1 or 2                               *)
(*   seed        the seed of the first crawl                               *)
(*   visited, downloaded   VISITED_URLS and DOWNLOADED_FILES at its end    *)
(***************************************************************************)
InitOrder ==
    /\ InitCommon
    /\ prog = "cms"
    /\ retry = [fn |-> "order", run |-> 1, seed |-> "none", visited |-> {},
                downloaded |-> {}]

\* the first crawl is over and no request of it failed; a fresh process and an
\* empty directory for the second
CrawlAgain ==
    /\ prog = "cms"
    /\ stack = <<>>
    /\ calls >= 1
    /\ allOk
    /\ retry.run = 1
    /\ retry' = [retry EXCEPT !.run = 2, !.seed = last.url,
                              !.visited = VISITED_URLS,
                              !.downloaded = DOWNLOADED_FILES]
    /\ VISITED_URLS' = {}
    /\ DOWNLOADED_FILES' = {}
    /\ calls' = 0
    /\ pageGets' = [u \in AllURLs |-> 0]
    /\ pageDepth' = [u \in AllURLs |-> {}]
    /\ fileGets' = [u \in AllURLs |-> 0]
    /\ fileWrites' = [u \in AllURLs |-> 0]
    /\ allOk' = TRUE
    /\ last' = NoCall
    /\ UNCHANGED <<stack, site, prog>>

NextOrder ==
    \/ \E seed \in URLS : CallCrawlPage(seed)
    \/ CrawlEnter
    \/ CrawlFileLink
    \/ CrawlPageLink
    \/ CrawlAgain

SpecOrder == InitOrder /\ [][NextOrder]_vars

(***************************************************************************)
(* download_loinc.main: one requests.Session(), login(session), then       *)
(* crawl_download_page(session, url) on a fixed list of URLs.              *)
(* crawl_download_page is not recursive; one step of main is one call.     *)
(*   step     the position of main in MainSteps                            *)
(*   session  the session object main has created                          *)
(*   logins   the calls of login made                                      *)
(*   log      the requests made so far, in order: what each is and the     *)
(*            session it is made on.  A get_page call is one entry,        *)
(*            whatever the number of its attempts.                         *)
(*   crashed  an exception has left main                                   *)
(* pageGets counts the get_page calls by URL, fileGets and fileWrites the  *)
(* requests and the files written by download_file.                        *)
(***************************************************************************)

\* additional_urls
ADDITIONAL_URLS == <<LOINC_DOWNLOAD_URL, COMPLETE_DOWNLOAD_URL, DOWNLOADS_URL>>
\* a main that logs in after the first page
MainSteps_late ==
    <<DOWNLOAD_PAGE_URL, "login", COMPLETE_DOWNLOAD_URL>> \o ADDITIONAL_URLS
\* the calls of main in program order: login, the two pages, additional_urls
MainSteps ==
    <<"login", DOWNLOAD_PAGE_URL, COMPLETE_DOWNLOAD_URL>> \o ADDITIONAL_URLS
\* the calls of the loop over additional_urls stand in try/except Exception
MainCatches(step) == step > Len(MainSteps) - Len(ADDITIONAL_URLS)

\* session = requests.Session()
MAIN_SESSION == "session-1"
Request(kind, session) == [kind |-> kind, session |-> session]

\* the requests login makes, on the session it is given
LoginRequests(out, session) ==
    IF out.posted THEN <<Request("login_get", session), Request("login_post", session)>>
    ELSE <<Request("login_get", session)>>

MainLoginInputs ==
    [get : LoginGetOutcomes,
     form : {NoForm, [found |-> TRUE, action |-> Absent, hidden |-> <<>>]},
     post : LoginPostOutcomes, url : {LOGIN_URL, DOWNLOAD_PAGE_URL}, mentions : {FALSE}]
MainPageGets == {<<"ok", "ok", "ok">>, <<"request_error", "ok", "ok">>,
                 <<"request_error", "request_error", "request_error">>}
MainPageTypes == {"text/html", "application/zip"}
MainDlOutcomes == {"ok", "net_error"}
\* what the terms flow meets, drawn as far as it is read: no form on a page that
\* was not fetched, no action without a form, no POST to an action that cannot be
\* resolved, no anchors in an answer that did not come
MainTermsInputs ==
    {in \in [gets : MainPageGets, found : BOOLEAN, action : {Absent, BAD_HREF},
             post : {"ok", "request_error"}, ctype : {"text/html"},
             url : {DOWNLOAD_PAGE_URL}, anchors : SUBSET {TERMS_ZIP},
             formActions : {{}}, files : {<<>>, <<TERMS_ZIP>>}] :
       /\ in.gets[DefaultRetries] # "ok" => ~in.found
       /\ ~in.found => in.action = Absent
       /\ (~in.found \/ in.action # Absent) => in.post = "ok"
       /\ (~in.found \/ in.action # Absent \/ in.post # "ok") => in.anchors = {}
       /\ in.files \in Orders(in.anchors)}

\* the anchors and the form actions of a parsed page
MainPages ==
    {[anchors |-> A, forms |-> {}] : A \in SUBSET {TERMS_ZIP, BAD_HREF}}
    \cup {[anchors |-> {}, forms |-> {BAD_HREF}]}
NoPage == [anchors |-> {}, forms |-> {}]

\* the terms flow not reached
NoTermsInput ==
    [gets |-> <<"ok", "ok", "ok">>, found |-> FALSE, action |-> Absent, post |-> "ok",
     ctype |-> "text/html", url |-> DOWNLOAD_PAGE_URL, anchors |-> {},
     formActions |-> {}, files |-> <<>>]

\* 'file-access' in url or 'download' in url.lower()
RunsTermsFlow(url) ==
    url \in {DOWNLOAD_PAGE_URL, COMPLETE_DOWNLOAD_URL, LOINC_DOWNLOAD_URL, DOWNLOADS_URL}

\* the file test of crawl_download_page on the fetched URL
LoincIsDirectFile(url, ctype) == LoincHasExt(url) \/ IsBinaryType(ctype)

\* for link in links: download_file(session, link, filepath) on those ending in an
\* extension; the URL universe holds one such link
DownloadLinks(state, links, o, session) ==
    IF TERMS_ZIP \in links
    THEN LET d == download_file("loinc", TERMS_ZIP, TERMS_ZIP, o, state.downloaded, state.gets,
                                state.writes)
         IN [downloaded |-> d.downloaded, gets |-> d.gets, writes |-> d.writes,
             log |-> IF d.requests > 0
                     THEN Append(state.log, Request("file_get", session))
                     ELSE state.log]
    ELSE state

\* crawl_download_page(session, url) after VISITED_URLS.add(url): the page's
\* get_page has returned `page` ("response" or "None") with content type ctype,
\* anchors and forms (the actions of its forms); o1, o2 are what the downloads of
\* the first loop and of the terms flow do, tin what the terms flow meets.
\* raised: an exception has left the call
crawl_download_page(session, url, page, ctype, anchors, forms, o1, tin, o2, visited, state) ==
    LET s0 == [state EXCEPT !.log = Append(@, Request("page_get", session))] IN
    IF page # "response" THEN s0 @@ [pages |-> 1, raised |-> FALSE]
    ELSE IF LoincIsDirectFile(url, ctype)
    THEN LET d == download_file("loinc", url, url, o1, s0.downloaded, s0.gets,
                                s0.writes) IN
         [downloaded |-> d.downloaded, gets |-> d.gets, writes |-> d.writes,
          log |-> IF d.requests > 0 THEN Append(s0.log, Request("file_get", session))
                  ELSE s0.log,
          pages |-> 1, raised |-> FALSE]
    ELSE IF LoincExtractorRaises(anchors, forms)
    THEN \* links = find_downloadable_links(soup, url) raises, in no try
         s0 @@ [pages |-> 1, raised |-> TRUE]
    ELSE LET links == find_downloadable_links_loinc(anchors, forms, visited)
             s1 == DownloadLinks(s0, links, o1, session)
         IN  IF ~RunsTermsFlow(url) THEN s1 @@ [pages |-> 1, raised |-> FALSE]
             ELSE LET t == accept_terms_and_download("loinc", url, tin, visited)
                      s2 == [s1 EXCEPT !.log =
                               IF t.posts > 0
                               THEN @ \o <<Request("page_get", session),
                                           Request("terms_post", session)>>
                               ELSE Append(@, Request("page_get", session))]
                  IN IF t.ret = "raise" THEN s2 @@ [pages |-> 2, raised |-> TRUE]
                     ELSE DownloadLinks(s2, t.links, o2, session)
                          @@ [pages |-> 2, raised |-> FALSE]

InitMain ==
    /\ VISITED_URLS = {}
    /\ DOWNLOADED_FILES = {}
    /\ stack = <<>>
    /\ site = [u \in LoincURLs |-> NoResponse]
    /\ calls = 0
    /\ pageGets = [u \in LoincURLs |-> 0]
    /\ pageDepth = [u \in LoincURLs |-> {}]
    /\ fileGets = [u \in LoincURLs |-> 0]
    /\ fileWrites = [u \in LoincURLs |-> 0]
    /\ allOk = TRUE
    /\ last = NoCall
    /\ prog = "loinc"
    /\ retry = [fn |-> "main", step |-> 1, session |-> MAIN_SESSION, logins |-> 0,
                log |-> <<>>, crashed |-> FALSE]

\* if not login(session): a warning, and main goes on
MainLoginStep(in) ==
    /\ prog = "loinc"
    /\ retry.fn = "main"
    /\ ~retry.crashed
    /\ retry.step <= Len(MainSteps)
    /\ MainSteps[retry.step] = "login"
    /\ retry' = [retry EXCEPT !.step = @ + 1, !.logins = @ + 1,
                              !.log = @ \o LoginRequests(login("loinc", in),
                                                         retry.session)]
    /\ UNCHANGED <<VISITED_URLS, DOWNLOADED_FILES, stack, site, calls, pageGets,
                   pageDepth, fileGets, fileWrites, allOk, prog, last>>

\* crawl_download_page(session, url) for the next URL of main.  What the site
\* answers is drawn as far as the call reads it: nothing for a URL already visited,
\* no content for a page that could not be fetched, no links for a file, nothing
\* after a page on which find_downloadable_links raises.  An
\* exception that leaves the call ends main, unless the loop over additional_urls
\* catches it
MainCrawlStep ==
    /\ prog = "loinc"
    /\ retry.fn = "main"
    /\ ~retry.crashed
    /\ retry.step <= Len(MainSteps)
    /\ MainSteps[retry.step] # "login"
    /\ calls' = calls + 1
    /\ LET url == MainSteps[retry.step] IN
       IF url \in VISITED_URLS
       THEN /\ retry' = [retry EXCEPT !.step = @ + 1]
            /\ UNCHANGED <<VISITED_URLS, DOWNLOADED_FILES, pageGets, fileGets,
                           fileWrites>>
       ELSE \E gets \in MainPageGets :
            LET r == get_page("loinc", DefaultRetries, gets) IN
            \E ctype \in IF r.ret = "response" THEN MainPageTypes ELSE {"text/html"} :
            LET parsed == r.ret = "response" /\ ~LoincIsDirectFile(url, ctype) IN
            \E pg \in IF parsed THEN MainPages ELSE {NoPage} :
            LET reads == parsed /\ ~LoincExtractorRaises(pg.anchors, pg.forms) IN
            \E o1 \in IF r.ret = "response" /\ (reads \/ ~parsed) THEN MainDlOutcomes
                      ELSE {"ok"},
               tin \in IF reads THEN MainTermsInputs ELSE {NoTermsInput},
               o2 \in IF reads THEN MainDlOutcomes ELSE {"ok"} :
            LET c == crawl_download_page(retry.session, url, r.ret, ctype, pg.anchors,
                         pg.forms, o1, tin, o2, VISITED_URLS \cup {url},
                         [downloaded |-> DOWNLOADED_FILES, gets |-> fileGets,
                          writes |-> fileWrites, log |-> retry.log])
            IN /\ VISITED_URLS' = VISITED_URLS \cup {url}
               /\ DOWNLOADED_FILES' = c.downloaded
               /\ fileGets' = c.gets
               /\ fileWrites' = c.writes
               /\ pageGets' = [pageGets EXCEPT ![url] = @ + c.pages]
               /\ retry' = [retry EXCEPT
                               !.step = @ + 1, !.log = c.log,
                               !.crashed = c.raised /\ ~MainCatches(retry.step)]
    /\ UNCHANGED <<stack, site, pageDepth, allOk, prog, last>>

NextMain ==
    \/ \E in \in MainLoginInputs : MainLoginStep(in)
    \/ MainCrawlStep

SpecMain == InitMain /\ [][NextMain]_vars

(***************************************************************************)
(* download_all_loinc.main after a login that returned a session: the loop *)
(* over DOWNLOAD_URLS, then the loop over direct_urls.  One step of main   *)
(* is one iteration of the outer loop, or the direct_urls loop.            *)
(*   step       the position of main in AllMainSteps                       *)
(*   succeeded  the URLs whose download_file call returned True            *)
(* DOWNLOADED_FILES is main's set `downloaded`; fileWrites are the files   *)
(* in DOWNLOAD_DIR, which may hold Loinc_2.81.zip before the run.          *)
(***************************************************************************)
\* DOWNLOAD_URLS, then "direct" for the loop over direct_urls
AllMainSteps == <<DOWNLOAD_PAGE_URL, DOWNLOADS_URL, "direct">>
\* direct_urls
DirectUrls == <<COMPLETE_DOWNLOAD_URL>>

\* 'file-access' in link_url or 'download-id' in link_url
NeedsTerms(link) == link = DOWNLOAD_PAGE_URL

\* what find_download_links returns: the direct file links and the file-access
\* links of the page in document order, [] when the page cannot be fetched
AllLinkLists ==
    UNION {Orders(S) : S \in SUBSET {TERMS_ZIP, ARCHIVE_ZIP, DOWNLOAD_PAGE_URL}}
AllDlOutcomes == {"ok", "net_error", "stream_error"}
AllFileURLs == {TERMS_ZIP, ARCHIVE_ZIP, DOWNLOAD_PAGE_URL, COMPLETE_DOWNLOAD_URL}
\* what the terms flow meets, drawn as far as it is read: no form on a page that
\* was not fetched, no POST without a form, no answer to a POST that failed
AllTermsInputs ==
    {in \in [gets : {<<"ok", "ok", "ok">>,
                     <<"request_error", "request_error", "request_error">>},
             found : BOOLEAN, action : {Absent}, post : {"ok", "request_error"},
             ctype : {"text/html", "application/zip"}, url : {DOWNLOAD_PAGE_URL},
             anchors : SUBSET {TERMS_ZIP, ARCHIVE_ZIP}, formActions : {{}},
             files : UNION {Orders(S) : S \in SUBSET {TERMS_ZIP, ARCHIVE_ZIP}}] :
       /\ in.gets[1] # "ok" => ~in.found
       /\ ~in.found => in.post = "ok"
       /\ (~in.found \/ in.post # "ok") => (in.anchors = {} /\ in.ctype = "text/html")
       /\ in.files \in Orders(in.anchors)}

\* the file names of direct_urls: "Loinc_2.81.zip", the base name of TERMS_ZIP
DirectNames == <<TERMS_ZIP>>
\* the file named for a link: os.path.basename(href) for an anchor, and for an
\* answer that is itself a file a name made from the clock, which no other URL has
LinkFile(url) == IF url = ARCHIVE_ZIP THEN TERMS_ZIP ELSE url

\* download_file(session, url, filename); downloaded.add(url)
AddDownloaded(downloaded, url, ret) == downloaded \cup {url}

\* if url not in downloaded: download_file(...); downloaded.add(url)
DownloadAndAdd(state, url, filepath, outs) ==
    IF url \in state.downloaded THEN state
    ELSE LET d == download_file("all_loinc", url, filepath, outs[url],
                                state.downloaded, state.gets, state.writes)
         IN [downloaded |-> AddDownloaded(state.downloaded, url, d.ret),
             gets |-> d.gets, writes |-> d.writes,
             succeeded |-> IF d.ret THEN state.succeeded \cup {url} ELSE state.succeeded]

\* for file_url, file_name in file_links, in the order of the list
RECURSIVE DownloadAll(_, _, _)
DownloadAll(state, file_links, outs) ==
    IF file_links = <<>> THEN state
    ELSE LET file_url == Head(file_links)
         IN DownloadAll(DownloadAndAdd(state, file_url, LinkFile(file_url), outs),
                        Tail(file_links), outs)

\* for link_url, filename in links, from the k-th link on
RECURSIVE ProcessLinks(_, _, _, _, _)
ProcessLinks(state, links, k, tin, outs) ==
    IF k > Len(links) THEN state
    ELSE LET link == links[k] IN
         IF link \in state.downloaded THEN ProcessLinks(state, links, k + 1, tin, outs)
         ELSE IF NeedsTerms(link)
         THEN LET t == accept_terms_and_download("all_loinc", link, tin, {})
              IN ProcessLinks(DownloadAll(state, t.list, outs), links, k + 1, tin, outs)
         ELSE ProcessLinks(DownloadAndAdd(state, link, LinkFile(link), outs), links,
                           k + 1, tin, outs)

\* for url, filename in direct_urls, from the k-th on
RECURSIVE ProcessDirect(_, _, _)
ProcessDirect(state, k, outs) ==
    IF k > Len(DirectUrls) THEN state
    ELSE ProcessDirect(DownloadAndAdd(state, DirectUrls[k], DirectNames[k], outs),
                       k + 1, outs)

InitAllMain ==
    /\ VISITED_URLS = {}
    /\ DOWNLOADED_FILES = {}
    /\ stack = <<>>
    /\ site = [u \in LoincURLs |-> NoResponse]
    /\ calls = 0
    /\ pageGets = [u \in LoincURLs |-> 0]
    /\ pageDepth = [u \in LoincURLs |-> {}]
    /\ fileGets = [u \in LoincURLs |-> 0]
    /\ \E have \in SUBSET {TERMS_ZIP} :
         fileWrites = [u \in LoincURLs |-> IF u \in have THEN 1 ELSE 0]
    /\ allOk = TRUE
    /\ last = NoCall
    /\ prog = "all_loinc"
    /\ retry = [fn |-> "all_main", step |-> 1, succeeded |-> {}]

AllMainState ==
    [downloaded |-> DOWNLOADED_FILES, gets |-> fileGets, writes |-> fileWrites,
     succeeded |-> retry.succeeded]

AllMainApply(s) ==
    /\ DOWNLOADED_FILES' = s.downloaded
    /\ fileGets' = s.gets
    /\ fileWrites' = s.writes
    /\ retry' = [retry EXCEPT !.step = @ + 1, !.succeeded = s.succeeded]
    /\ calls' = calls + 1
    /\ UNCHANGED <<VISITED_URLS, stack, site, pageGets, pageDepth, allOk, prog, last>>

\* one iteration of for url in DOWNLOAD_URLS
AllMainScanStep(links, tin, outs) ==
    /\ prog = "all_loinc"
    /\ retry.fn = "all_main"
    /\ retry.step <= Len(AllMainSteps)
    /\ AllMainSteps[retry.step] # "direct"
    /\ AllMainApply(ProcessLinks(AllMainState, links, 1, tin, outs))

\* the loop over direct_urls, up to the report
AllMainDirectStep(outs) ==
    /\ prog = "all_loinc"
    /\ retry.fn = "all_main"
    /\ retry.step <= Len(AllMainSteps)
    /\ AllMainSteps[retry.step] = "direct"
    /\ AllMainApply(ProcessDirect(AllMainState, 1, outs))

NextAllMain ==
    \/ \E links \in AllLinkLists, tin \in AllTermsInputs,
          outs \in [AllFileURLs -> AllDlOutcomes] : AllMainScanStep(links, tin, outs)
    \/ \E outs \in [AllFileURLs -> AllDlOutcomes] : AllMainDirectStep(outs)

SpecAllMain == InitAllMain /\ [][NextAllMain]_vars

(***************************************************************************)
(* accept_terms_and_download called on a page, then the loop of its caller *)
(* over the list returned, which downloads what it hands on.               *)
(*   pc   "start", "returned", "crashed" (the exception has left the       *)
(*        function), "handed" (the caller's loop has run)                  *)
(***************************************************************************)
InitTerms ==
    /\ VISITED_URLS = {}
    /\ DOWNLOADED_FILES = {}
    /\ stack = <<>>
    /\ site = [u \in LoincURLs |-> NoResponse]
    /\ calls = 0
    /\ pageGets = [u \in LoincURLs |-> 0]
    /\ pageDepth = [u \in LoincURLs |-> {}]
    /\ fileGets = [u \in LoincURLs |-> 0]
    /\ fileWrites = [u \in LoincURLs |-> 0]
    /\ allOk = TRUE
    /\ last = NoCall
    /\ prog \in LoginPrograms
    /\ retry \in {[fn |-> "accept_terms_and_download", pc |-> "start",
                   url |-> DOWNLOAD_PAGE_URL, in |-> in,
                   out |-> TermsResult("none", 0, 0, {}, Absent), handed |-> {}] :
                  in \in TermsInputs}

\* form_links = accept_terms_and_download(session, url), reached from
\* crawl_download_page with url in VISITED_URLS
TermsCall ==
    /\ prog \in LoginPrograms
    /\ retry.pc = "start"
    /\ LET out == accept_terms_and_download(prog, retry.url, retry.in, {retry.url}) IN
       retry' = [retry EXCEPT !.out = out,
                              !.pc = IF out.ret = "raise" THEN "crashed" ELSE "returned"]
    /\ UNCHANGED <<VISITED_URLS, DOWNLOADED_FILES, stack, site, calls, pageGets,
                   pageDepth, fileGets, fileWrites, allOk, prog, last>>

\* for link in form_links: ... download_file(session, link, filepath), and in
\* download_all_loinc downloaded.add(file_url); outs is what the download of each
\* link does
TermsCallerLoop(outs) ==
    /\ prog \in LoginPrograms
    /\ retry.pc = "returned"
    /\ LET handed == TermsHanded(prog, retry.out.links, DOWNLOADED_FILES)
           s == IF prog = "loinc"
                THEN DownloadLinks([downloaded |-> DOWNLOADED_FILES, gets |-> fileGets,
                                    writes |-> fileWrites, log |-> <<>>],
                                   handed, outs[TERMS_ZIP], MAIN_SESSION)
                ELSE DownloadAll([downloaded |-> DOWNLOADED_FILES, gets |-> fileGets,
                                  writes |-> fileWrites, succeeded |-> {}],
                                 retry.out.list, outs)
       IN /\ DOWNLOADED_FILES' = s.downloaded
          /\ fileGets' = s.gets
          /\ fileWrites' = s.writes
          /\ retry' = [retry EXCEPT !.pc = "handed", !.handed = handed]
    /\ UNCHANGED <<VISITED_URLS, stack, site, calls, pageGets, pageDepth, allOk, prog,
                   last>>

NextTerms ==
    \/ TermsCall
    \/ \E outs \in [AllFileURLs -> AllDlOutcomes] : TermsCallerLoop(outs)

SpecTerms == InitTerms /\ [][NextTerms]_vars

(***************************************************************************)
(* download_by_pagination (download_nlm_genes).  One step is one iteration *)
(* of the while loop: one make_request call and what is done with its      *)
(* result.                                                                 *)
(*   pc       "loop" (in the loop), "returned", "raised" (an exception     *)
(*            left the function)                                           *)
(*   offset, count   the loop's variables                                  *)
(*   pages    the make_request calls made                                  *)
(*   req      the last call: its offset and count parameters, the number   *)
(*            of its attempts, and what it gave                            *)
(* What the API answers, once an attempt succeeds:                         *)
(*   "short"      a falsy value or a list of fewer than 4 elements         *)
(*   "no_codes"   result[1] is empty                                       *)
(*   "partial"    fewer codes than count                                   *)
(*   "full"       count codes or more                                      *)
(*   "malformed"  JSON of another shape: len() or the processing raises    *)
(***************************************************************************)
MAX_COUNT == 500
MAX_TOTAL == 7500

NlmAnswers == {"short", "no_codes", "partial", "full", "malformed"}
NoRequest == [offset |-> 0, count |-> 0, attempts |-> 0, result |-> "none"]

\* a loop test that lets the offset reach MAX_TOTAL
NlmContinue_le(offset) == offset <= MAX_TOTAL
\* while offset < MAX_TOTAL
NlmContinue(offset) == offset < MAX_TOTAL

\* make_request(params, retries=3): the parsed JSON, or None after the last failed
\* attempt
make_request(outcomes) == get_page("nlm", DefaultRetries, outcomes)

InitNlm ==
    /\ InitCommon
    /\ prog = "nlm"
    /\ retry = [fn |-> "download_by_pagination", pc |-> "loop", offset |-> 0,
                count |-> MAX_COUNT, pages |-> 0, req |-> NoRequest]

\* one iteration of the while loop
NlmPage(outcomes, answer) ==
    /\ prog = "nlm"
    /\ retry.fn = "download_by_pagination"
    /\ retry.pc = "loop"
    /\ NlmContinue(retry.offset)
    /\ LET r == make_request(outcomes)
           result == IF r.ret = "response" THEN answer ELSE "None"
           req == [offset |-> retry.offset, count |-> retry.count,
                   attempts |-> r.requests, result |-> result]
       IN retry' = [retry EXCEPT
                      !.pages = @ + 1,
                      !.req = req,
                      !.pc = IF result = "malformed" THEN "raised"
                             ELSE IF result \in {"None", "short", "no_codes", "partial"}
                             THEN "returned"
                             ELSE "loop",
                      !.offset = IF result = "full" THEN @ + retry.count ELSE @]
    /\ UNCHANGED <<VISITED_URLS, DOWNLOADED_FILES, stack, site, calls, pageGets,
                   pageDepth, fileGets, fileWrites, allOk, prog, last>>

\* the loop test fails: return all_genes
NlmReturn ==
    /\ prog = "nlm"
    /\ retry.fn = "download_by_pagination"
    /\ retry.pc = "loop"
    /\ ~NlmContinue(retry.offset)
    /\ retry' = [retry EXCEPT !.pc = "returned"]
    /\ UNCHANGED <<VISITED_URLS, DOWNLOADED_FILES, stack, site, calls, pageGets,
                   pageDepth, fileGets, fileWrites, allOk, prog, last>>

NextNlm ==
    \/ \E outcomes \in [1..DefaultRetries -> AttemptOutcomes], answer \in NlmAnswers :
         NlmPage(outcomes, answer)
    \/ NlmReturn

SpecNlm == InitNlm /\ [][NextNlm]_vars
\* every request has a timeout and the sleeps are finite: the loop goes on
FairSpecNlm == SpecNlm /\ WF_vars(NextNlm)

(***************************************************************************)
(* Properties.                                                             *)
(***************************************************************************)
Range(q) == {q[k] : k \in 1..Len(q)}

\* C1: in crawl_cms_hcpcs every URL is passed to get_page at most once, a URL
\* that was passed to get_page is in VISITED_URLS, and a crawl_page call on a URL
\* already in VISITED_URLS (its fetch failed or not) makes no network call.
C1_EachUrlFetchedOnce ==
    /\ [](\A u \in URLS : pageGets[u] <= 1 /\ (pageGets[u] > 0 => u \in VISITED_URLS))
    /\ [][(stack # <<>> /\ Top.pc = "enter" /\ Top.url \in VISITED_URLS)
            => (pageGets' = pageGets /\ fileGets' = fileGets
                /\ VISITED_URLS' = VISITED_URLS)]_vars

\* a second crawl_page call, on a URL whose one fetch has failed
C1_Witness ==
    /\ calls = 2
    /\ stack # <<>>
    /\ Top.pc = "enter"
    /\ Top.url \in VISITED_URLS
    /\ pageGets[Top.url] = 1
    /\ site[Top.url] = NoResponse

\* C2: download_file (crawl_cms_hcpcs, download_loinc) on a URL already in
\* DOWNLOADED_FILES returns False without a request and without a write, and
\* leaves DOWNLOADED_FILES and VISITED_URLS as they are.
C2_DownloadedUrlIsSkipped ==
    [][(calls' = calls + 1 /\ prog \in {"cms", "loinc"}
        /\ last'.fn = "download_file" /\ last'.url \in DOWNLOADED_FILES)
         => (/\ last'.requests = 0
             /\ last'.ret = FALSE
             /\ fileGets' = fileGets
             /\ fileWrites' = fileWrites
             /\ DOWNLOADED_FILES' = DOWNLOADED_FILES
             /\ VISITED_URLS' = VISITED_URLS)]_vars

\* download_loinc.download_file was called again on a URL it had downloaded, while
\* the site would have answered
C2_Witness ==
    /\ prog = "loinc"
    /\ last.fn = "download_file"
    /\ last.url \in DOWNLOADED_FILES
    /\ last.pre
    /\ last.outcome = "ok"
    /\ fileGets[last.url] = 1

\* C3: over a run of crawl_page no URL is fetched as a file more than once:
\* download_file issues its GET at most once per URL.
C3_EachFileFetchedOnce == \A u \in URLS : fileGets[u] <= 1

\* the pages that a page served as HTML links to: same host, keyword in the path,
\* no file extension
PageLinks(u) ==
    IF site[u].ctype = "text/html"
    THEN {v \in site[u].anchors : HasKeyword(v) /\ IsCms(v) /\ ~HasExt(v)}
    ELSE {}

\* the pages within k page links of the pages of S
RECURSIVE Within(_, _)
Within(S, k) ==
    IF k = 0 THEN S ELSE Within(S \cup UNION {PageLinks(u) : u \in S}, k - 1)

\* C4: when crawl_page(seed, 0, max_depth) has returned and no fetch has failed,
\* every page within max_depth page links of the seed is in VISITED_URLS.
C4_ExhaustiveWithinDepth ==
    (calls >= 1 /\ stack = <<>> /\ allOk)
        => Within({last.url}, MaxDepth) \subseteq VISITED_URLS

\* C5: a crawl_page call with depth > max_depth returns at once, without a
\* network call and without a change to VISITED_URLS or DOWNLOADED_FILES; every
\* recursive call is one deeper than its caller; so get_page is never called in
\* a frame deeper than max_depth.
C5_DepthBound ==
    /\ [](\A u \in URLS : \A d \in pageDepth[u] : d <= MaxDepth)
    /\ [](\A k \in 1..Len(stack) : stack[k].depth = k - 1)
    /\ [][(stack # <<>> /\ Top.pc = "enter" /\ Top.depth > MaxDepth)
            => (/\ VISITED_URLS' = VISITED_URLS
                /\ DOWNLOADED_FILES' = DOWNLOADED_FILES
                /\ pageGets' = pageGets
                /\ fileGets' = fileGets
                /\ fileWrites' = fileWrites
                /\ Len(stack') < Len(stack))]_vars

\* crawl_page has been called one level below max_depth, on a URL not yet visited
C5_Witness ==
    /\ stack # <<>>
    /\ Top.pc = "enter"
    /\ Top.depth = MaxDepth + 1
    /\ Top.url \notin VISITED_URLS

\* C6: a frame at depth max_depth hands every file link of its page to
\* download_file, and from its loops on no URL is fetched as a page or marked
\* visited: the calls it makes at depth max_depth + 1 do neither.
C6_LeafPage ==
    /\ [](\A k \in 1..Len(stack) :
            (stack[k].depth = MaxDepth /\ stack[k].pc = "pages")
                => stack[k].handed = {l \in Range(stack[k].links) : HasExt(l)})
    /\ [][(stack # <<>> /\ ((Top.depth = MaxDepth /\ Top.pc \in {"files", "pages"})
                            \/ Top.depth > MaxDepth))
            => (VISITED_URLS' = VISITED_URLS /\ pageGets' = pageGets)]_vars

\* a page at depth max_depth has had its file link handed to download_file and
\* then calls crawl_page on a page link, which is not visited
C6_Witness ==
    /\ Len(stack) = MaxDepth + 2
    /\ Top.pc = "enter"
    /\ ~HasExt(Top.url)
    /\ Top.url \notin VISITED_URLS
    /\ stack[Len(stack) - 1].handed # {}

\* C7: every crawl_page call made from outside ends, whatever the link graph and
\* whichever fetches and downloads fail: it returns, or an exception leaves it.
C7_CrawlTerminates == (stack # <<>>) ~> (stack = <<>> \/ Top.pc = "raised")

\* a crawl has returned on a site with a self-link and a cycle, after a failure
C7_Witness ==
    /\ calls >= 1
    /\ stack = <<>>
    /\ ~allOk
    /\ \E u \in PageURLs : u \in site[u].anchors
    /\ \E u, v \in PageURLs : u # v /\ v \in site[u].anchors /\ u \in site[v].anchors

\* C8: with the default retries, get_page makes at most 3 requests; it returns
\* the first successful response, having made no request after it; and it
\* returns None only after 3 requests that all failed.
C8_AtMostThreeAttempts ==
    (retry.done /\ retry.retries = DefaultRetries)
        => /\ retry.requests <= 3
           /\ retry.ret = "response"
                => /\ retry.outcomes[retry.requests] = "ok"
                   /\ \A k \in 1..(retry.requests - 1) : retry.outcomes[k] # "ok"
           /\ retry.ret = "None"
                => /\ retry.requests = 3
                   /\ \A k \in 1..3 : retry.outcomes[k] # "ok"
           /\ (\A k \in 1..3 : retry.outcomes[k] = "request_error") => retry.ret = "None"
           /\ \A k \in 1..3 :
                (retry.outcomes[k] = "ok"
                 /\ \A j \in 1..(k - 1) : retry.outcomes[j] = "request_error")
                    => (retry.ret = "response" /\ retry.requests = k)

\* a call that returned None after three failed requests
C8_Witness ==
    /\ retry.done
    /\ retry.retries = DefaultRetries
    /\ retry.ret = "None"
    /\ retry.requests = 3

\* C9 as stated: the delays of one call grow by one fixed positive step.
C9_DelayGrowsByFixedStep ==
    retry.done
        => \E step \in 1..(2 ^ MaxRetries) :
             \A k \in 1..(Len(retry.delays) - 1) :
                retry.delays[k + 1] = retry.delays[k] + step

\* C9 as amended: the delay is 2 seconds before every retry in
\* crawl_cms_hcpcs.get_page and download_nlm_genes.make_request, and 1 second
\* before the second attempt and twice the previous delay before each later
\* one in download_loinc.get_page, for every value of retries.
C9_DelayConstantOrDoubling ==
    retry.done
        => \A k \in 1..Len(retry.delays) :
             IF retry.impl = "loinc"
             THEN retry.delays[k] = (IF k = 1 THEN 1 ELSE 2 * retry.delays[k - 1])
             ELSE retry.delays[k] = 2

\* a download_loinc.get_page call that slept three times
C9_Witness ==
    /\ retry.done
    /\ retry.impl = "loinc"
    /\ Len(retry.delays) >= 3

\* C10: a download_file call that fails on the network has made 3 requests.
C10_DownloadRetried ==
    (last.fn = "download_file" /\ last.outcome = "net_error" /\ ~last.pre)
        => last.requests = DefaultRetries

\* C11: a failed download or a failed page fetch never aborts the crawl.  No frame is
\* ever left by an exception of get_page or download_file (the one exception that
\* leaves a frame comes from find_downloadable_links, on a page that was fetched);
\* a step in which a download fails adds nothing to DOWNLOADED_FILES; and once the
\* crawl has returned, every link of every page it parsed has been processed: each
\* link ending in an extension was handed to download_file, and each link of a
\* page parsed above the depth limit is visited.
C11_FailureStep ==
    /\ allOk /\ ~allOk'
    /\ \E u \in URLS : fileGets'[u] = fileGets[u] + 1
C11_FailuresDoNotAbort ==
    /\ [](\A k \in 1..Len(stack) :
            stack[k].pc = "raised" => ExtractorRaises(site[stack[k].url].anchors))
    /\ [][C11_FailureStep => DOWNLOADED_FILES' = DOWNLOADED_FILES]_vars
    /\ [](stack = <<>> /\ calls >= 1 =>
            \A u \in URLS : site[u].ctype = "text/html" =>
              \A l \in site[u].anchors :
                /\ HasExt(l) => fileGets[l] >= 1
                /\ (HasExt(l) \/ HasKeyword(l)) /\ IsCms(l)
                     /\ (\E d \in pageDepth[u] : d < MaxDepth)
                   => l \in VISITED_URLS)
\* the crawl has returned from a page with a link whose download failed and a link
\* whose fetch failed, both processed
C11_Witness ==
    /\ stack = <<>> /\ calls >= 1 /\ ~allOk
    /\ \E u \in URLS : site[u].ctype = "text/html" /\
         \E f, l \in site[u].anchors :
           /\ HasExt(f) /\ fileGets[f] >= 1 /\ f \notin DOWNLOADED_FILES
           /\ HasKeyword(l) /\ l # u /\ pageGets[l] = 1 /\ site[l] = NoResponse

\* C12: login failure is never fatal: in download_loinc.main and in
\* download_all_loinc.main, once login has failed (no form, success test not met,
\* or a network error) the run is never ended before the crawl/download phase.
C12_LoginFailureNotFatal ==
    (prog \in LoginPrograms /\ retry.out.reported = "failure")
        => retry.pc \notin {"exit", "crashed"}

\* C13: login reports success exactly when the POST's answer has a URL other than
\* the login URL, or a body mentioning the username, or a URL containing a
\* post-login path fragment.
C13_SuccessIffHeuristic ==
    (prog \in LoginPrograms /\ retry.pc # "start" /\ retry.out.posted
     /\ retry.in.post = "ok")
        => ((retry.out.reported = "success")
            <=> \/ retry.in.url # LOGIN_URL
                \/ retry.in.mentions
                \/ \E f \in {"wp-admin", "file-access", "downloads"} :
                      UrlContains(retry.in.url, f))

\* C14: the login data is POSTed to the form's action URL when the form has one, and
\* to the login URL only when it has none.
C14_PostToFormAction ==
    (prog \in LoginPrograms /\ retry.pc # "start" /\ retry.out.posted)
        => retry.out.postUrl = IF retry.in.form.action # Absent
                               THEN retry.in.form.action ELSE LOGIN_URL

\* the value of the last hidden input called name, as it is sent
LastHiddenValue(hidden, name) ==
    LET ks == {k \in 1..Len(hidden) : hidden[k].name = name}
        k == CHOOSE k \in ks : \A j \in ks : j <= k
    IN  IF hidden[k].value = Absent THEN "" ELSE hidden[k].value

\* C15: every hidden input of the login form that has a name is in the POSTed
\* payload under that name with its value unmodified (the empty string for an
\* absent value, the last value for a repeated name), whatever the defaults were.
C15_HiddenInputsForwarded ==
    (prog \in LoginPrograms /\ retry.pc # "start" /\ retry.out.posted)
        => \A k \in 1..Len(retry.in.form.hidden) :
             LET name == retry.in.form.hidden[k].name IN
             name # Absent =>
                /\ name \in DOMAIN retry.out.payload
                /\ retry.out.payload[name] = LastHiddenValue(retry.in.form.hidden, name)
\* a posted payload in which a hidden input named as a default, repeated, has
\* replaced the default, and another hidden input came without a value
C15_Witness ==
    /\ prog \in LoginPrograms /\ retry.pc # "start" /\ retry.out.posted
    /\ Len(retry.in.form.hidden) = 2
    /\ retry.in.form.hidden[1] = [name |-> "log", value |-> "tok1"]
    /\ retry.in.form.hidden[2] = [name |-> "log", value |-> Absent]
    /\ retry.out.payload["log"] = ""

\* some request of the page's GET that was made has failed for good
TermsGetFailed(p, gets) ==
    IF p = "loinc" THEN \A k \in 1..DefaultRetries : gets[k] # "ok" ELSE gets[1] # "ok"

\* C16: accept_terms_and_download never raises: with no form on the page it returns
\* the empty list and issues no POST, and when the GET or the POST fails it returns
\* a list.
C16_TermsNeverRaises ==
    (prog \in LoginPrograms /\ retry.fn = "accept_terms_and_download"
     /\ retry.pc # "start")
        => /\ retry.out.ret = "list"
           /\ retry.pc # "crashed"
           /\ (~retry.in.found \/ TermsGetFailed(prog, retry.in.gets))
                => (retry.out.links = {} /\ retry.out.posts = 0)
           /\ retry.in.post # "ok" => retry.out.links = {}

\* C17: when the POST's answer declares a binary/archive content type, the answer's
\* URL is among the links accept_terms_and_download returns and is handed to the
\* downloader, in download_loinc and in download_all_loinc.
C17_BinaryResponseUrlReturned ==
    (prog \in LoginPrograms /\ retry.fn = "accept_terms_and_download"
     /\ retry.pc = "handed" /\ retry.out.posts = 1 /\ retry.in.post = "ok"
     /\ IsBinaryType(retry.in.ctype))
        => (retry.in.url \in retry.out.links /\ retry.in.url \in retry.handed)

\* C18: every anchor whose URL ends in one of DOWNLOAD_EXTENSIONS is in the list
\* find_downloadable_links returns for its page, and the first loop of crawl_page
\* hands it to download_file, whatever else the page holds and whether or not the URL
\* is in VISITED_URLS: of every frame that has parsed its page, the extension
\* anchors of the page are in its links, and once its first loop is over, or an
\* exception has left it, they have been handed to download_file.
C18_ExtensionLinkIsFile ==
    \A k \in 1..Len(stack) :
        (stack[k].pc \in {"files", "pages", "raised"}
         /\ site[stack[k].url].ctype = "text/html") =>
            \A a \in site[stack[k].url].anchors :
                HasExt(a) => /\ a \in Range(stack[k].links)
                             /\ stack[k].pc \in {"pages", "raised"}
                                  => a \in stack[k].handed

\* C19 as stated: from a page with an anchor to /docs/report.pdf and an anchor to
\* /docs/more/ the engine downloads the file and recurses into /docs/more/ at
\* depth + 1.
C19_BothLinksFollowed ==
    (stack = <<>> /\ calls >= 1 /\ allOk /\ pageGets[START_URL] = 1
     /\ {REPORT_PDF, MORE_PAGE} \subseteq site[START_URL].anchors)
        => /\ fileGets[REPORT_PDF] >= 1
           /\ MORE_PAGE \in VISITED_URLS
           /\ pageDepth[MORE_PAGE] = {1}

\* C19, amended: of the two anchors the extractor returns the file only; the engine
\* hands the file to download_file and never fetches /docs/more/, whose path holds no
\* crawl keyword; an anchor to a page whose path holds one is returned and recursed
\* into at depth + 1.
C19_OnlyKeywordPagesFollowed ==
    /\ pageGets[MORE_PAGE] = 0 /\ MORE_PAGE \notin VISITED_URLS
    /\ \A k \in 1..Len(stack) :
         (stack[k].pc \in {"files", "pages"} /\ stack[k].url = START_URL)
            => Range(stack[k].links) \cap {REPORT_PDF, MORE_PAGE, PageSeq[2]}
                 = (site[START_URL].anchors \cap {REPORT_PDF, PageSeq[2]})
    /\ (stack = <<>> /\ calls >= 1 /\ allOk /\ pageGets[START_URL] = 1)
         => /\ REPORT_PDF \in site[START_URL].anchors
                 => (fileGets[REPORT_PDF] >= 1 /\ pageDepth[REPORT_PDF] = {1})
            /\ PageSeq[2] \in site[START_URL].anchors => pageDepth[PageSeq[2]] = {1}
\* the crawl of the page with exactly the two anchors has returned, the file
\* downloaded
C19_Witness ==
    /\ stack = <<>> /\ calls >= 1 /\ allOk
    /\ site[START_URL].anchors = {REPORT_PDF, MORE_PAGE}
    /\ pageGets[START_URL] = 1
    /\ REPORT_PDF \in DOWNLOADED_FILES

\* C20: the second pass of find_downloadable_links adds to the list an absolute URL
\* ending in an extension that stands in the page's text but in no anchor.
C20_ScriptUrlFound ==
    \A k \in 1..Len(stack) :
        stack[k].pc \in {"files", "pages"} =>
            \A u \in site[stack[k].url].scripts \ site[stack[k].url].anchors :
                u \in Range(stack[k].links)

\* the host of u is cms.gov or a subdomain of it
SameOrigin(u) == u \in AllURLs \ {LOOKALIKE_PAGE, FOREIGN_PAGE}

\* C21: crawl_page recurses only into links of the seed's origin: no URL whose host
\* is neither cms.gov nor a subdomain of it is ever passed to get_page.
C21_SameOriginOnly ==
    \A u \in AllURLs : pageGets[u] > 0 => SameOrigin(u)

\* C22: download_file of download_loinc and of download_all_loinc skips a 2xx answer
\* declared text/html whose body is below the threshold (10000 and 50000 bytes):
\* one request, nothing written, DOWNLOADED_FILES unchanged, False returned; an
\* answer at or above the threshold, or of another type, is written.
C22_Answered ==
    /\ calls' = calls + 1
    /\ last'.fn = "download_answer"
    /\ ~last'.pre
C22_SmallHtmlSkipped ==
    [][(C22_Answered /\ prog \in {"loinc", "all_loinc"}) =>
         IF IsHtmlType(last'.ctype)
            /\ last'.size < (IF prog = "loinc" THEN 10000 ELSE 50000)
         THEN /\ ~last'.ret /\ ~last'.raised /\ last'.requests = 1
              /\ fileWrites' = fileWrites
              /\ DOWNLOADED_FILES' = DOWNLOADED_FILES
         ELSE /\ last'.ret
              /\ fileWrites'[last'.url] = fileWrites[last'.url] + 1]_vars
\* download_loinc has skipped a text/html answer of 9999 bytes and no file of that
\* URL has ever been written
C22_Witness ==
    /\ prog = "loinc"
    /\ last.fn = "download_answer" /\ ~last.pre
    /\ IsHtmlType(last.ctype) /\ last.size = 9999
    /\ ~last.ret /\ last.requests = 1
    /\ fileWrites[last.url] = 0 /\ last.url \notin DOWNLOADED_FILES

\* C23: a crawled URL without a recognized extension whose answer is declared
\* application/octet-stream takes the file branch: in the step that fetches it
\* download_file issues its request for it and, unless that download fails, writes
\* the body and adds the URL to DOWNLOADED_FILES; the URL never has a frame in the
\* loops over links (it is neither parsed nor recursed from).
C23_Fetched(u) == ~HasExt(u) /\ site[u] = NoResponse /\ site'[u] = BinaryBody
C23_OctetStreamIsFile ==
    /\ [][\A u \in URLS : C23_Fetched(u) =>
             /\ fileGets'[u] = fileGets[u] + 1
             /\ allOk' => (u \in DOWNLOADED_FILES' /\ fileWrites'[u] = fileWrites[u] + 1)
             /\ u \in DOWNLOADED_FILES' => fileWrites'[u] = fileWrites[u] + 1]_vars
    /\ [](\A k \in 1..Len(stack) :
            (~HasExt(stack[k].url) /\ site[stack[k].url] = BinaryBody)
                => stack[k].pc = "enter")
\* a URL without extension, reached from another page, was answered with a binary
\* body and is downloaded
C23_Witness ==
    \E u \in PageURLs \ {START_URL} :
        /\ site[u] = BinaryBody
        /\ pageGets[u] = 1
        /\ fileWrites[u] = 1
        /\ u \in DOWNLOADED_FILES

\* C24: a second run against the same site and the directory left by the first
\* writes no file for a URL the first run downloaded.
C24_SecondRunWritesNothing ==
    [][\A u \in URLS :
         (retry.run = 2 /\ u \in retry.first) => fileWrites'[u] = fileWrites[u]]_vars

\* os.path.normpath of a relative path, in segments
RECURSIVE NormPath(_, _)
NormPath(segs, acc) ==
    IF segs = <<>> THEN acc
    ELSE LET s == Head(segs) IN
         IF s = <<>> \/ s = <<46>> THEN NormPath(Tail(segs), acc)
         ELSE IF s = DotDot /\ acc # <<>> /\ acc[Len(acc)] # DotDot
              THEN NormPath(Tail(segs), SubSeq(acc, 1, Len(acc) - 1))
              ELSE NormPath(Tail(segs), Append(acc, s))

UnderDownloadDir(filepath) ==
    LET n == NormPath(filepath, <<>>) IN Len(n) >= 2 /\ n[1] = DOWNLOAD_DIR

\* C25: every file path the first loop of crawl_page hands to download_file
\* lies under DOWNLOAD_DIR, also for a URL path with ".." or empty segments.
C25_PathUnderDownloadDir ==
    last.fn = "download_file" /\ prog = "cms" => UnderDownloadDir(last.filepath)

\* C26: the file name get_filename_from_url returns holds only characters of
\* [A-Za-z0-9._-]; every other character of the name became "_".
C26_AsciiNamesOnly ==
    last.fn = "get_filename_from_url" =>
        \A i \in DOMAIN last.filename :
            last.filename[i] \in (48..57) \cup (65..90) \cup (97..122) \cup {46, 95, 45}

\* C29: in the HTML branch of crawl_page a link whose path ends in a
\* DOWNLOAD_EXTENSIONS suffix is never passed to crawl_page, hence never to
\* get_page, from its parent page: no call above the seed's is on such a URL.
C29_FileLinksNotRecursed ==
    \A k \in 2..Len(stack) : ~HasExt(stack[k].url)

\* C28: for a fixed site and fixed responses the final VISITED_URLS and
\* DOWNLOADED_FILES of crawl_page(seed, 0, max_depth) are the same whatever the
\* order in which the links of each page are iterated: two crawls of one site
\* from the same seed, no request failing in either, end with the same sets.
C28_OrderIndependent ==
    (/\ retry.run = 2
     /\ stack = <<>>
     /\ calls >= 1
     /\ last.url = retry.seed
     /\ allOk)
    => /\ VISITED_URLS = retry.visited
       /\ DOWNLOADED_FILES = retry.downloaded

LoginKinds == {"login_get", "login_post"}
CountKind(log, kind) == Cardinality({i \in DOMAIN log : log[i].kind = kind})

\* C27: in download_loinc.main the login runs exactly once and before any crawl
\* request: every login request precedes every request of the crawl, there is at
\* most one login GET and one login POST in a run, a crawl request is made only
\* after the one login call, and every request is made on the session main created.
C27_LoginOnceFirstSameSession ==
    retry.fn = "main" =>
        /\ retry.logins <= 1
        /\ CountKind(retry.log, "login_get") <= 1
        /\ CountKind(retry.log, "login_post") <= 1
        /\ \A i, j \in DOMAIN retry.log :
             (retry.log[i].kind \in LoginKinds /\ retry.log[j].kind \notin LoginKinds)
                 => i < j
        /\ (\E i \in DOMAIN retry.log : retry.log[i].kind \notin LoginKinds)
               => retry.logins = 1 /\ retry.log[1].kind = "login_get"
        /\ \A i \in DOMAIN retry.log : retry.log[i].session = retry.session
        /\ (retry.step > Len(MainSteps) => retry.logins = 1)

\* main has run to its end: login posted, then pages fetched, terms submitted and a
\* file downloaded
C27_Witness ==
    /\ retry.fn = "main"
    /\ retry.step > Len(MainSteps)
    /\ CountKind(retry.log, "login_post") = 1
    /\ CountKind(retry.log, "terms_post") >= 1
    /\ CountKind(retry.log, "file_get") >= 1
    /\ CountKind(retry.log, "page_get") >= 4

\* C30: over a whole run of download_loinc.main no URL is fetched as a page more
\* than once: crawl_download_page and accept_terms_and_download together make at
\* most one get_page call for each URL.
C30_OnePageFetchPerUrl ==
    retry.fn = "main" => \A u \in LoincURLs : pageGets[u] <= 1

\* C32: a failed download leaves no trace on disk: when download_file returns the
\* failure value after a network or filesystem error, an error in the middle of
\* the body included, no file is at the destination that was not there before.
C32_FailureLeavesNoFile ==
    [][(/\ calls' = calls + 1
        /\ last'.fn = "download_file"
        /\ ~last'.ret
        /\ last'.requests = 1
        /\ last'.outcome \in {"net_error", "fs_error", "stream_error"}
        /\ fileWrites[last'.url] = 0)
       => fileWrites'[last'.url] = 0]_vars

\* C34: the login POST payload always carries the supplied credentials: whatever
\* hidden inputs the login form holds, the payload posted has log equal to
\* USERNAME and pwd equal to PASSWORD.
C34_PayloadCarriesCredentials ==
    (retry.fn = "main" /\ retry.pc # "start" /\ retry.out.posted)
    => /\ retry.out.payload["log"] = USERNAME
       /\ retry.out.payload["pwd"] = PASSWORD

\* C33: in download_all_loinc.main the set `downloaded` holds only URLs whose
\* download_file call succeeded, so the count reported at the end of main is the
\* number of files written in the run.
C33_DownloadedOnlySucceeded ==
    retry.fn = "all_main" =>
        /\ DOWNLOADED_FILES \subseteq retry.succeeded
        /\ (retry.step > Len(AllMainSteps)
              => Cardinality(DOWNLOADED_FILES) = Cardinality(retry.succeeded))

\* C31: within one run two distinct URLs that are both downloaded successfully
\* are never written to the same destination path, so no file written by
\* download_file is overwritten by a later download.
C31_DistinctUrlsDistinctPaths ==
    last.fn = "download_pair" => last.filepath1 # last.filepath2

\* C35: every request of download_by_pagination has offset + count <= MAX_TOTAL
\* with offset a multiple of MAX_COUNT and at most 3 attempts, one call makes at
\* most 15 page requests, and the call always ends, whatever the API returns.
C35_PaginationBounded ==
    /\ [](retry.fn = "download_by_pagination" =>
            /\ retry.pages <= 15
            /\ (retry.pages > 0 =>
                  /\ retry.req.offset + retry.req.count <= 7500
                  /\ retry.req.offset % 500 = 0
                  /\ retry.req.attempts \in 1..3))
    /\ <>(retry.fn = "download_by_pagination" /\ retry.pc # "loop")

\* the fifteenth page request, made at offset 7000 after a third attempt succeeded,
\* after which the loop ends on its test
C35_Witness ==
    /\ retry.fn = "download_by_pagination"
    /\ retry.pc = "returned"
    /\ retry.pages = 15
    /\ retry.req.offset = 7000
    /\ retry.req.attempts = 3
    /\ retry.req.result = "full"
    /\ retry.offset = 7500
====
